---- MODULE Spec2Model ----
(***************************************************************************)
(* A model of pattern_roller_maker: the face-count arithmetic of           *)
(* Parameters, the diagonal selector, the ear trimmer, the face validation *)
(* of the STL writer and one run of actual_work (summary, open, body and   *)
(* end faces streamed through a BufWriter, drop of the writer).            *)
(*                                                                         *)
(* Numbers.  u32 values are pairs <<high, low>> of 16-bit halves so that   *)
(* the arithmetic keeps its 32-bit width.  The f64 arithmetic of lls_sse   *)
(* and of the annulus ranges is IEEE 754 binary64, bit for bit (f64_add,   *)
(* f64_mul, f64_div, f64_round); the radii and coordinates of the meshers  *)
(* are small integers, whose f64 arithmetic is exact, and the dimensions   *)
(* of parse_macthes are fractions.  Points produced through the            *)
(* sine/cosine table are symbolic (sampler index, radius, z plane).        *)
(***************************************************************************)
EXTENDS Integers, Sequences, FiniteSets, TLC

VARIABLES
    params,      \* the Parameters of the run
    build,       \* "debug" (debug_assertions on) or "release"
    pc,          \* position of the run inside actual_work / make_pattern_roller
    gen,         \* loop indices of the mesher that is running
    polygon,     \* the polygon fill_polygon_by_ear_trimming is working on
    stl_writer,  \* the STLFileWriter: bytes held by its BufWriter, faces_count
    file,        \* the output file: created or not, bytes that reached it
    written,     \* number of write_face calls that returned Ok
    last,        \* the face handed to the latest write_face call
    summary,     \* what print_summary obtained from bytes_estimate
    ret,         \* value returned by STLFileWriter::new / make_pattern_roller
    result,      \* how actual_work ended
    call,        \* input of the function under study (function specifications)
    out          \* its output

vars == <<params, build, pc, gen, polygon, stl_writer, file, written, last,
          summary, ret, result, call, out>>

None == [kind |-> "None"]

Builds == {"debug", "release"}

(***************************************************************************)
(* Bounds of the model.                                                    *)
(***************************************************************************)
MaxDim == 2        \* image_width, image_height range over 1..MaxDim
MaxStack == 2      \* stack_horizontal, stack_vertical range over 1..MaxStack
MaxInner == 4      \* circle_points of a Pin or Channel end ranges over 3..MaxInner

(***************************************************************************)
(* u32 arithmetic on pairs of 16-bit halves.  Every operation returns the  *)
(* wrapped value and whether the exact result left the u32 range.          *)
(***************************************************************************)
Half16 == 2 ^ 16

U32(n) == <<n \div Half16, n % Half16>>

\* The number a pair stands for, when it is below 2^31.
ToNat(x) == x[1] * Half16 + x[2]

Zero32 == <<0, 0>>

Add32(x, y) ==
    LET lo == x[2] + y[2]
        hi == x[1] + y[1] + (lo \div Half16)
    IN  [val |-> <<hi % Half16, lo % Half16>>, of |-> hi >= Half16]

Sub32(x, y) ==
    LET lo == x[2] - y[2]
        hi == x[1] - y[1] - (IF lo < 0 THEN 1 ELSE 0)
    IN  [val |-> <<hi % Half16, lo % Half16>>, of |-> hi < 0]

\* The product of two 16-bit numbers as a pair of 16-bit halves; high is
\* (a div 256) * b, low is (a mod 256) * b, both below 2^24.
Halves16(high, low) ==
    <<(high \div 256) + (((high % 256) * 256 + low) \div Half16),
      ((high % 256) * 256 + low) % Half16>>

Mul16(a, b) == Halves16((a \div 256) * b, (a % 256) * b)

\* x * y from the partial products x1*y2, x2*y1 and x2*y2 (x1*y1 counts
\* 2^32 and only tells an overflow).
Partial32(x, y, c1, c2, ll) ==
    [val |-> <<(c1[2] + c2[2] + ll[1]) % Half16, ll[2]>>,
     of |-> (x[1] > 0 /\ y[1] > 0) \/ c1[1] > 0 \/ c2[1] > 0
                \/ c1[2] + c2[2] + ll[1] >= Half16]

Mul32(x, y) ==
    Partial32(x, y, Mul16(x[1], y[2]), Mul16(x[2], y[1]), Mul16(x[2], y[2]))

(***************************************************************************)
(* Results.                                                                *)
(***************************************************************************)
Ok(v) == [kind |-> "Ok", val |-> v]

\* An anyhow error: its cause and the context attached to it.
Err(cause, context) == [kind |-> "Err", cause |-> cause, context |-> context]

\* A panic unwinds out of actual_work: nothing is returned.
Panic(why) == [kind |-> "Panic", why |-> why]

(***************************************************************************)
(* Parameters.                                                             *)
(***************************************************************************)
Flat == [kind |-> "Flat", circle_points |-> 0]

Pin(n) == [kind |-> "Pin", circle_points |-> n]

Channel(n) == [kind |-> "Channel", circle_points |-> n]

\* radii_vector is held by description: an explicit row-major sequence
\* ("explicit", vals) or a rule giving the radius at every index.
Radii(pattern, vals) == [pattern |-> pattern, vals |-> vals]

Parameters(w, h, sh, sv, e, radii) ==
    [image_width |-> w, image_height |-> h, stack_horizontal |-> sh,
     stack_vertical |-> sv, roller_end |-> e, radii_vector |-> radii,
     output_filename |-> "out.stl"]

\* radii_vector[index], index counted from 0.
RadiiAt(p, index) ==
    CASE p.radii_vector.pattern = "explicit" -> p.radii_vector.vals[index + 1]
      [] p.radii_vector.pattern = "solid" -> 5
      [] p.radii_vector.pattern = "ramp" ->
            4 + (((index % p.image_width) + 2 * (index \div p.image_width)) % 3)

\* Parameters::get_rho
get_rho(p, i, j) == RadiiAt(p, j * p.image_width + i)

\* Parameters::get_rho_looped, lines 79-80: rem_euclid on both indices.
looped_index(p, i_raw, j_raw) ==
    [i_raw |-> i_raw, j_raw |-> j_raw,
     i |-> i_raw % p.image_width, j |-> j_raw % p.image_height]

\* Parameters::get_rho_looped
get_rho_looped(p, i_raw, j_raw) ==
    get_rho(p, looped_index(p, i_raw, j_raw).i, looped_index(p, i_raw, j_raw).j)

\* Parameters::get_image_topline()[k] and get_image_botline()[k]
get_image_topline(p, k) == RadiiAt(p, k)

get_image_botline(p, k) ==
    RadiiAt(p, p.image_width * p.image_height - p.image_width + k)

\* Parameters::circle_points: an unchecked u32 product.
circle_points(p, b) ==
    LET m == Mul32(U32(p.image_width), U32(p.stack_horizontal))
    IN  IF m.of /\ b = "debug" THEN Panic("overflow") ELSE Ok(m.val)

\* A slip in the end-face term: six faces per pin point instead of eight.
EndsInnerFaces_SixPerPin(p) ==
    CASE p.roller_end.kind = "Flat" -> [val |-> Zero32, of |-> FALSE]
      [] p.roller_end.kind = "Pin" -> Mul32(U32(6), U32(p.roller_end.circle_points))
      [] p.roller_end.kind = "Channel" -> Mul32(U32(4), U32(p.roller_end.circle_points))

\* The variant-specific part of ends_faces_count.
EndsInnerFaces(p) ==
    CASE p.roller_end.kind = "Flat" -> [val |-> Zero32, of |-> FALSE]
      [] p.roller_end.kind = "Pin" -> Mul32(U32(8), U32(p.roller_end.circle_points))
      [] p.roller_end.kind = "Channel" -> Mul32(U32(4), U32(p.roller_end.circle_points))

\* Parameters::faces_count, one definition per step of the computation, each
\* handed the values computed so far.  The products W*Hs and H*Vs, the
\* "- 1" and the whole end-face term are plain u32 operators: they panic in
\* a debug build and wrap in a release build.  Only checked_mul, checked_mul
\* and checked_add return the overflow error.
OverflowError == Err("overflow", <<"OVERFLOW_ERROR_TEXT">>)

\* lines 67-70
faces_count_sum(n_faces) ==
    IF n_faces.of THEN OverflowError ELSE Ok(n_faces.val)

\* lines 60-66, the sum
faces_count_ends(b, full_body_faces, ends_faces_count) ==
    IF b = "debug" /\ ends_faces_count.of THEN Panic("overflow")
    ELSE faces_count_sum(Add32(full_body_faces, ends_faces_count.val))

\* lines 60-66, the two products
faces_count_lids(b, full_body_faces, twice_width, inner) ==
    IF b = "debug" /\ (twice_width.of \/ inner.of) THEN Panic("overflow")
    ELSE faces_count_ends(b, full_body_faces, Add32(twice_width.val, inner.val))

\* lines 57-59
faces_count_faces(p, b, full_body_width_points, full_body_faces) ==
    IF full_body_faces.of THEN OverflowError
    ELSE faces_count_lids(b, full_body_faces.val,
                          Mul32(U32(2), full_body_width_points), EndsInnerFaces(p))

\* lines 54-56
faces_count_points(p, b, full_body_width_points, full_body_points) ==
    IF full_body_points.of THEN OverflowError
    ELSE faces_count_faces(p, b, full_body_width_points,
                           Mul32(U32(2), full_body_points.val))

\* line 53, the subtraction
faces_count_height(p, b, full_body_width_points, full_body_height_points) ==
    IF b = "debug" /\ full_body_height_points.of THEN Panic("overflow")
    ELSE faces_count_points(p, b, full_body_width_points,
                            Mul32(full_body_width_points, full_body_height_points.val))

\* lines 52-53, the two products
faces_count_width(p, b, full_body_width_points, height_product) ==
    IF b = "debug" /\ (full_body_width_points.of \/ height_product.of)
      THEN Panic("overflow")
    ELSE faces_count_height(p, b, full_body_width_points.val,
                            Sub32(height_product.val, U32(1)))

faces_count(p, b) ==
    faces_count_width(p, b, Mul32(U32(p.image_width), U32(p.stack_horizontal)),
                      Mul32(U32(p.image_height), U32(p.stack_vertical)))

\* 50 * n_faces + 84 in u64, as four 16-bit digits (most significant first);
\* low is 50 * (the low half of n_faces) + 84.
Bytes64(n_faces, low) ==
    <<0, (50 * n_faces[1] + (low \div Half16)) \div Half16,
      (50 * n_faces[1] + (low \div Half16)) % Half16, low % Half16>>

\* Parameters::bytes_estimate, line 96
bytes_of(r) ==
    IF r.kind # "Ok" THEN r ELSE Ok(Bytes64(r.val, 50 * r.val[2] + 84))

\* Parameters::bytes_estimate
bytes_estimate(p, b) == bytes_of(faces_count(p, b))

\* A u64 of four digits as a number, when it is below 2^31.
ToNat64(x) == (x[2] * Half16 + x[3]) * Half16 + x[4]

Small64(x) == x[1] = 0 /\ x[2] = 0 /\ x[3] < 2 ^ 15

(***************************************************************************)
(* SpecCount: faces_count and bytes_estimate applied to Parameters drawn   *)
(* from small grids and from the sizes at which each product or sum of     *)
(* the computation leaves the u32 range.                                   *)
(***************************************************************************)
MaxStackCli == 1000

BigDims == {32768, 65536, 524288, 2147484, 4294968}

BigInner == {2 ^ 29}

EndSpecs(inner) ==
    {Flat} \cup {Pin(n) : n \in inner} \cup {Channel(n) : n \in inner}

\* round(TAU * inner_diameter / grid_step) with inner_diameter below the
\* roller diameter: the inner circle has at most about twice the points of
\* the outer one.
InnerFits(w, sh, e) == e.circle_points \div (2 * sh) <= w + 1

CountParams ==
    {p \in {Parameters(w, h, sh, sv, e, Radii("solid", <<>>)) :
                w \in (1..MaxDim) \cup BigDims, h \in (1..MaxDim) \cup BigDims,
                sh \in (1..MaxStack) \cup {MaxStackCli},
                sv \in (1..MaxStack) \cup {MaxStackCli},
                e \in EndSpecs((3..MaxInner) \cup BigInner)} :
        InnerFits(p.image_width, p.stack_horizontal, p.roller_end)}

RunIdle ==
    /\ pc = "idle"
    /\ gen = None
    /\ polygon = <<>>
    /\ stl_writer = None
    /\ file = [created |-> FALSE, len |-> 0]
    /\ written = 0
    /\ last = None
    /\ summary = None
    /\ ret = None
    /\ result = None

RunVars == <<pc, gen, polygon, stl_writer, file, written, last, summary, ret, result>>

InitCount ==
    /\ params \in CountParams
    /\ build \in Builds
    /\ RunIdle
    /\ call = [fn |-> "faces_count"]
    /\ out = None

CallFacesCount ==
    /\ call.fn = "faces_count"
    /\ out = None
    /\ out' = [n_faces |-> faces_count(params, build),
               bytes |-> bytes_estimate(params, build)]
    /\ UNCHANGED <<params, build, call, RunVars>>

NextCount == CallFacesCount

SpecCount == InitCount /\ [][NextCount]_vars

(***************************************************************************)
(* Natural numbers of any size, as sequences of 14-bit limbs, the least    *)
(* significant first and the most significant not zero (0 is <<>>).  They  *)
(* carry the exact sums and products of f64 significands, which do not fit *)
(* the integers of the model checker.                                      *)
(***************************************************************************)
LimbBits == 14

Limb == 16384

RECURSIVE Pow2(_)
Pow2(k) == IF k = 0 THEN 1 ELSE 2 * Pow2(k - 1)

RECURSIVE Trim(_)
Trim(a) ==
    IF Len(a) = 0 THEN a
    ELSE IF a[Len(a)] = 0 THEN Trim(SubSeq(a, 1, Len(a) - 1))
    ELSE a

RECURSIVE BigOf(_)
BigOf(n) == IF n = 0 THEN <<>> ELSE <<n % Limb>> \o BigOf(n \div Limb)

RECURSIVE BigToInt(_)
BigToInt(a) == IF Len(a) = 0 THEN 0 ELSE a[1] + Limb * BigToInt(Tail(a))

LimbAt(a, i) == IF i <= Len(a) THEN a[i] ELSE 0

RECURSIVE BigAddFrom(_, _, _, _)
BigAddFrom(a, b, i, carry) ==
    IF i > Len(a) /\ i > Len(b)
      THEN IF carry = 0 THEN <<>> ELSE <<carry>>
      ELSE <<(LimbAt(a, i) + LimbAt(b, i) + carry) % Limb>>
             \o BigAddFrom(a, b, i + 1, (LimbAt(a, i) + LimbAt(b, i) + carry) \div Limb)

BigAdd(a, b) == BigAddFrom(a, b, 1, 0)

\* a - b for a >= b
RECURSIVE BigSubFrom(_, _, _, _)
BigSubFrom(a, b, i, borrow) ==
    IF i > Len(a) THEN <<>>
    ELSE <<(a[i] - LimbAt(b, i) - borrow) % Limb>>
           \o BigSubFrom(a, b, i + 1, IF a[i] - LimbAt(b, i) - borrow < 0 THEN 1 ELSE 0)

BigSub(a, b) == Trim(BigSubFrom(a, b, 1, 0))

\* -1, 0 or 1 as a < b, a = b or a > b, comparing from limb i downwards
RECURSIVE BigCmpFrom(_, _, _)
BigCmpFrom(a, b, i) ==
    IF i = 0 THEN 0
    ELSE IF a[i] < b[i] THEN -1
    ELSE IF a[i] > b[i] THEN 1
    ELSE BigCmpFrom(a, b, i - 1)

BigCmp(a, b) ==
    IF Len(a) < Len(b) THEN -1
    ELSE IF Len(a) > Len(b) THEN 1
    ELSE BigCmpFrom(a, b, Len(a))

\* a * d + carry for one limb d
RECURSIVE BigMulLimbFrom(_, _, _, _)
BigMulLimbFrom(a, d, i, carry) ==
    IF i > Len(a)
      THEN IF carry = 0 THEN <<>> ELSE <<carry>>
      ELSE <<(a[i] * d + carry) % Limb>>
             \o BigMulLimbFrom(a, d, i + 1, (a[i] * d + carry) \div Limb)

BigMulLimb(a, d) == IF d = 0 THEN <<>> ELSE BigMulLimbFrom(a, d, 1, 0)

ShiftLimbs(a, n) == IF Len(a) = 0 THEN a ELSE [k \in 1..n |-> 0] \o a

RECURSIVE BigMulFrom(_, _, _)
BigMulFrom(a, b, j) ==
    IF j > Len(b) THEN <<>>
    ELSE BigAdd(ShiftLimbs(BigMulLimb(a, b[j]), j - 1), BigMulFrom(a, b, j + 1))

BigMul(a, b) == BigMulFrom(a, b, 1)

\* a * 2^k
BigShl(a, k) == ShiftLimbs(BigMulLimb(a, Pow2(k % LimbBits)), k \div LimbBits)

\* The quotient of a by one limb d and the remainder, from limb i downwards
RECURSIVE BigDivLimbFrom(_, _, _, _, _)
BigDivLimbFrom(a, d, i, quot, rem) ==
    IF i = 0 THEN [quot |-> Trim(quot), rem |-> rem]
    ELSE BigDivLimbFrom(a, d, i - 1, <<(rem * Limb + a[i]) \div d>> \o quot,
                        (rem * Limb + a[i]) % d)

BigDivLimb(a, d) == BigDivLimbFrom(a, d, Len(a), <<>>, 0)

\* floor(a / 2^k)
BigShr(a, k) ==
    IF k \div LimbBits >= Len(a) THEN <<>>
    ELSE BigDivLimb(SubSeq(a, (k \div LimbBits) + 1, Len(a)), Pow2(k % LimbBits)).quot

RECURSIVE BitsOfLimb(_)
BitsOfLimb(d) == IF d = 0 THEN 0 ELSE 1 + BitsOfLimb(d \div 2)

\* The number of bits of a
BigBits(a) == IF Len(a) = 0 THEN 0 ELSE LimbBits * (Len(a) - 1) + BitsOfLimb(a[Len(a)])

\* The number of zero bits a (not 0) ends with
RECURSIVE ZerosOfLimb(_)
ZerosOfLimb(d) == IF d % 2 = 1 THEN 0 ELSE 1 + ZerosOfLimb(d \div 2)

RECURSIVE BigZerosFrom(_, _)
BigZerosFrom(a, i) ==
    IF a[i] = 0 THEN LimbBits + BigZerosFrom(a, i + 1) ELSE ZerosOfLimb(a[i])

BigZeros(a) == BigZerosFrom(a, 1)

(***************************************************************************)
(* f64: IEEE 754 binary64 with rounding to nearest, ties to even, as Rust  *)
(* computes +, -, * and / on f64.  A value is neg, mant and exp, standing  *)
(* for (-1)^neg * mant * 2^exp with mant odd, and 0 is mant = <<>>.  The   *)
(* exponent is not bounded: no value of the model comes near overflow or   *)
(* the subnormal numbers.                                                  *)
(***************************************************************************)
MantissaBits == 53

f64_zero == [neg |-> FALSE, mant |-> <<>>, exp |-> 0]

f64_canon(neg, m, e) ==
    IF Len(m) = 0 THEN f64_zero
    ELSE [neg |-> neg, mant |-> BigShr(m, BigZeros(m)), exp |-> e + BigZeros(m)]

\* q, the bits of m above the lowest k, rounded by the k bits below it
f64_nearest(q, rest, half, sticky) ==
    IF BigCmp(rest, half) = 1
       \/ (BigCmp(rest, half) = 0 /\ (sticky \/ q[1] % 2 = 1))
      THEN BigAdd(q, <<1>>)
      ELSE q

f64_cut(neg, m, e, k, q, sticky) ==
    f64_canon(neg, f64_nearest(q, BigSub(m, BigShl(q, k)), BigShl(<<1>>, k - 1), sticky),
              e + k)

\* The f64 nearest to m * 2^e, or to a little more than it when sticky
f64_round_to(neg, m, e, sticky) ==
    IF BigBits(m) <= MantissaBits THEN f64_canon(neg, m, e)
    ELSE f64_cut(neg, m, e, BigBits(m) - MantissaBits,
                 BigShr(m, BigBits(m) - MantissaBits), sticky)

\* i as f64, for an integer of 32 bits
f64_from(i) == f64_canon(i < 0, BigOf(IF i < 0 THEN -i ELSE i), 0)

f64_neg(x) == IF Len(x.mant) = 0 THEN x ELSE [x EXCEPT !.neg = ~x.neg]

f64_sum(xneg, mx, yneg, my, e) ==
    IF xneg = yneg THEN f64_round_to(xneg, BigAdd(mx, my), e, FALSE)
    ELSE IF BigCmp(mx, my) = 0 THEN f64_zero
    ELSE IF BigCmp(mx, my) = 1 THEN f64_round_to(xneg, BigSub(mx, my), e, FALSE)
    ELSE f64_round_to(yneg, BigSub(my, mx), e, FALSE)

f64_add(x, y) ==
    IF Len(x.mant) = 0 THEN y
    ELSE IF Len(y.mant) = 0 THEN x
    ELSE IF x.exp <= y.exp
      THEN f64_sum(x.neg, x.mant, y.neg, BigShl(y.mant, y.exp - x.exp), x.exp)
      ELSE f64_sum(x.neg, BigShl(x.mant, x.exp - y.exp), y.neg, y.mant, y.exp)

f64_sub(x, y) == f64_add(x, f64_neg(y))

f64_mul(x, y) ==
    IF Len(x.mant) = 0 \/ Len(y.mant) = 0 THEN f64_zero
    ELSE f64_round_to(x.neg # y.neg, BigMul(x.mant, y.mant), x.exp + y.exp, FALSE)

\* The digit q of a long division by d: q * d <= rem < (q + 1) * d, found
\* by halving lo..hi, where lo * d <= rem < hi * d
RECURSIVE BigDigit(_, _, _, _)
BigDigitAt(rem, d, lo, mid, hi) ==
    IF BigCmp(BigMulLimb(d, mid), rem) <= 0
      THEN BigDigit(rem, d, mid, hi)
      ELSE BigDigit(rem, d, lo, mid)

BigDigit(rem, d, lo, hi) ==
    IF hi - lo = 1 THEN lo ELSE BigDigitAt(rem, d, lo, (lo + hi) \div 2, hi)

BigDivDigit(d, quot, rem, digit) ==
    [quot |-> Trim(<<digit>> \o quot), rem |-> BigSub(rem, BigMulLimb(d, digit))]

\* One step of the long division by d: the next limb of the dividend comes
\* down to the remainder
BigDivStep(d, quot, rem) == BigDivDigit(d, quot, rem, BigDigit(rem, d, 0, Limb))

BigDivLimbDown(d, division, limb) ==
    BigDivStep(d, division.quot, Trim(<<limb>> \o division.rem))

\* The long division of n by d, down to limb j of n
RECURSIVE BigDivTo(_, _, _)
BigDivTo(n, d, j) ==
    IF j > Len(n) THEN [quot |-> <<>>, rem |-> <<>>]
    ELSE BigDivLimbDown(d, BigDivTo(n, d, j + 1), n[j])

\* n = quot * d + rem and rem < d, for d # 0
BigDiv(n, d) == BigDivTo(n, d, 1)

f64_quot(neg, division, e) ==
    f64_round_to(neg, division.quot, e, Len(division.rem) # 0)

\* x / y for y # 0: the dividend is scaled until the quotient has more bits
\* than an f64 keeps
f64_scaled(x, y, s) ==
    f64_quot(x.neg # y.neg, BigDiv(BigShl(x.mant, s), y.mant), x.exp - y.exp - s)

f64_div(x, y) ==
    IF Len(x.mant) = 0 THEN f64_zero
    ELSE f64_scaled(x, y, MantissaBits + 3 + BigBits(y.mant))

\* x < y
f64_lt(x, y) == f64_sub(x, y).neg

f64_halfway(neg, q, rest, half) ==
    f64_canon(neg, IF BigCmp(rest, half) >= 0 THEN BigAdd(q, <<1>>) ELSE q, 0)

\* f64::round: the nearest integer, halves away from zero
f64_round(x) ==
    IF x.exp >= 0 THEN x
    ELSE f64_halfway(x.neg, BigShr(x.mant, -x.exp),
                     BigSub(x.mant, BigShl(BigShr(x.mant, -x.exp), -x.exp)),
                     BigShl(<<1>>, (-x.exp) - 1))

\* x as usize for an x that is an integer: the cast saturates below at 0
f64_as_usize(x) ==
    IF x.neg \/ Len(x.mant) = 0 THEN 0 ELSE BigToInt(BigShl(x.mant, x.exp))

(***************************************************************************)
(* The diagonal selector (split.rs) and the two triangles the body mesher  *)
(* writes for one quad (construct.rs).                                     *)
(***************************************************************************)
\* lls_sse, scaled by 20 so that the factors 0.25, 1.5 and 0.2 stay integral:
\* 20*sse = 20*sum(y^2) - 5*(sum y)^2 - (2*sum(x*y) - 3*sum y)^2.
lls_sse(y1, y2, y3, y4) ==
    LET y_sum == y1 + y2 + y3 + y4
        xy_sum == y2 + 2 * y3 + 3 * y4
        y_squared_sum == y1 * y1 + y2 * y2 + y3 * y3 + y4 * y4
        ss_yy_20 == 20 * y_squared_sum - 5 * y_sum * y_sum
        ss_xy_2 == 2 * xy_sum - 3 * y_sum
    IN  ss_yy_20 - ss_xy_2 * ss_xy_2

\* A slip in the comparison: a tie selects the top-left/bottom-right diagonal.
TlbrWins_TieSelectsTlbr(tlbr_split_score, trbl_split_score) ==
    tlbr_split_score <= trbl_split_score

\* tlbr_split_score < trbl_split_score
TlbrWins(tlbr_split_score, trbl_split_score) ==
    tlbr_split_score < trbl_split_score

\* split_quad_optimal.  tlbr_args and trbl_args record the radii handed to
\* the two lls_sse calls, in the order of the call.
split_quad_optimal(p, i, j) ==
    LET corner_tl == get_rho_looped(p, i - 1, j - 1)
        corner_tr == get_rho_looped(p, i - 1, j + 2)
        corner_bl == get_rho_looped(p, i + 2, j - 1)
        corner_br == get_rho_looped(p, i + 2, j + 2)
        quad_tl == get_rho_looped(p, i, j)
        quad_tr == get_rho_looped(p, i + 1, j)
        quad_bl == get_rho_looped(p, i, j + 1)
        quad_br == get_rho_looped(p, i + 1, j + 1)
        tlbr_split_score == lls_sse(corner_tl, quad_tl, quad_br, corner_br)
        trbl_split_score == lls_sse(corner_tr, quad_tr, quad_bl, corner_bl)
    IN  [tlbr_split |-> TlbrWins(tlbr_split_score, trbl_split_score),
         quad_tl |-> quad_tl, quad_tr |-> quad_tr,
         quad_bl |-> quad_bl, quad_br |-> quad_br,
         tlbr_args |-> <<corner_tl, quad_tl, quad_br, corner_br>>,
         trbl_args |-> <<corner_tr, quad_tr, quad_bl, corner_bl>>]

\* The indices of the eight get_rho_looped calls of split_quad_optimal, as
\* given and as resolved.
split_lookups(p, i, j) ==
    <<looped_index(p, i - 1, j - 1), looped_index(p, i - 1, j + 2),
      looped_index(p, i + 2, j - 1), looped_index(p, i + 2, j + 2),
      looped_index(p, i, j), looped_index(p, i + 1, j),
      looped_index(p, i, j + 1), looped_index(p, i + 1, j + 1)>>

\* make_cylinder_patterned, lines 93-99: the corners of the two triangles
\* written for a quad, in the order they are handed to write_face_auto_normal.
BodyTriangles(tlbr_split) ==
    IF tlbr_split
      THEN <<<<"tl", "br", "tr">>, <<"bl", "br", "tl">>>>
      ELSE <<<<"bl", "tr", "tl">>, <<"bl", "br", "tr">>>>

(***************************************************************************)
(* SpecSplit: split_quad_optimal and the quad's two triangles, for every   *)
(* cell of every grid of the listed sizes with radii in 1..MaxRadius.      *)
(***************************************************************************)
MaxRadius == 2

SplitDims == {<<1, 1>>, <<2, 2>>, <<4, 2>>, <<2, 4>>}

SplitParams ==
    {Parameters(d[1], d[2], 1, 1, Flat, Radii("explicit", vals)) :
        d \in SplitDims, vals \in UNION {[1..(e[1] * e[2]) -> 1..MaxRadius] : e \in SplitDims}}

InitSplit ==
    /\ params \in {p \in SplitParams :
                     Len(p.radii_vector.vals) = p.image_width * p.image_height}
    /\ build \in {"debug"}
    /\ RunIdle
    /\ call \in {[fn |-> "split_quad_optimal", i |-> i, j |-> j] :
                    i \in 0..(params.image_width - 1),
                    j \in 0..(params.image_height - 1)}
    /\ out = None

\* One pass of the body of the loops over i and j: the split of cell (i, j)
\* and the triangles chosen from it.
MeshCell ==
    /\ call.fn = "split_quad_optimal"
    /\ out = None
    /\ LET split == split_quad_optimal(params, call.i, call.j)
       IN  out' = [split |-> split, faces |-> BodyTriangles(split.tlbr_split),
                   lookups |-> split_lookups(params, call.i, call.j)]
    /\ UNCHANGED <<params, build, call, RunVars>>

NextSplit == MeshCell

SpecSplit == InitSplit /\ [][NextSplit]_vars

(***************************************************************************)
(* Vector3 (vectors.rs).  Coordinates are integers (lattice units), so     *)
(* every sum and product below is exact.                                   *)
(***************************************************************************)
Vector3(x, y, z) == [x |-> x, y |-> y, z |-> z]

UP == Vector3(0, 0, 1)

DOWN == Vector3(0, 0, -1)

ZERO == Vector3(0, 0, 0)

from_points(origin, end) ==
    Vector3(end.x - origin.x, end.y - origin.y, end.z - origin.z)

from_cross_product(vec_a, vec_b) ==
    Vector3(vec_a.y * vec_b.z - vec_a.z * vec_b.y,
            vec_a.z * vec_b.x - vec_a.x * vec_b.z,
            vec_a.x * vec_b.y - vec_a.y * vec_b.x)

xy_perp_clockwise(v) == Vector3(-v.y, v.x, v.z)

xy_scalar_product(vec_a, vec_b) == vec_a.x * vec_b.x + vec_a.y * vec_b.y

Abs(x) == IF x < 0 THEN -x ELSE x

\* f64::EPSILON is 2^-52; between lattice coordinates a difference is at
\* most EPSILON exactly when it is 0.
EPSILON == 0

\* impl PartialEq for Vector3
VecEq(v, other_vec) ==
    /\ Abs(v.x - other_vec.x) <= EPSILON
    /\ Abs(v.y - other_vec.y) <= EPSILON
    /\ Abs(v.z - other_vec.z) <= EPSILON

\* The orientation test with the sign of the determinant reversed.
check_right_hand_LeftHanded(vec_a, vec_b, vec_c) ==
    vec_a.x * vec_b.y * vec_c.z + vec_a.y * vec_b.z * vec_c.x
        + vec_a.z * vec_b.x * vec_c.y
        - vec_a.z * vec_b.y * vec_c.x
        - vec_a.y * vec_b.x * vec_c.z
        - vec_a.x * vec_b.z * vec_c.y < 0

check_right_hand(vec_a, vec_b, vec_c) ==
    vec_a.x * vec_b.y * vec_c.z + vec_a.y * vec_b.z * vec_c.x
        + vec_a.z * vec_b.x * vec_c.y
        - vec_a.z * vec_b.y * vec_c.x
        - vec_a.y * vec_b.x * vec_c.z
        - vec_a.x * vec_b.z * vec_c.y > 0

\* debug_face_data: "ok", or the assertion that fails (the degeneracy
\* assertion comes first).
debug_face_data(vec_n, vec_a, vec_b, vec_c) ==
    IF ~(~VecEq(vec_a, vec_b) /\ ~VecEq(vec_b, vec_c) /\ ~VecEq(vec_c, vec_a)
            /\ ~VecEq(vec_n, ZERO))
      THEN "Encountered degenerate face"
    ELSE IF ~check_right_hand(from_points(vec_b, vec_c),
                              from_points(vec_b, vec_a), vec_n)
      THEN "Encountered inverted normal"
    ELSE "ok"

(***************************************************************************)
(* STLFileWriter (stl.rs).  The writer is the remaining-face counter and   *)
(* the number of bytes held by its BufWriter; the file is its length.      *)
(***************************************************************************)
HEADER_SIZE == 80

COUNT_SIZE == 4       \* u32::to_le_bytes

VECTOR_SIZE == 12     \* Vector3::to_binary

SPACER_SIZE == 2

BufCapacity == 8192   \* BufWriter::new: the default capacity

FaceParts == <<VECTOR_SIZE, VECTOR_SIZE, VECTOR_SIZE, VECTOR_SIZE, SPACER_SIZE>>

STLFileWriter(n_faces, buffered) ==
    [kind |-> "STLFileWriter", faces_count |-> n_faces, buffered |-> buffered]

\* Does BufWriter::write_all have to empty its buffer before taking len bytes?
NeedsFlush(w, len) == w.buffered + len > BufCapacity

\* write_data: BufWriter::write_all of len bytes.  io_ok is the outcome of
\* the flush to the file, if one is needed; a failed flush leaves the bytes
\* in the buffer and is returned as it is, with no context added.
write_data(w, f, len, io_ok) ==
    IF ~NeedsFlush(w, len)
      THEN [w |-> [w EXCEPT !.buffered = @ + len], f |-> f, res |-> Ok("unit")]
    ELSE IF io_ok
      THEN [w |-> [w EXCEPT !.buffered = len],
            f |-> [f EXCEPT !.len = @ + w.buffered], res |-> Ok("unit")]
    ELSE [w |-> w, f |-> f, res |-> Err("io", <<>>)]

\* The chain  write_data(..)?; write_data(..)?; ... write_data(..)
RECURSIVE write_all_parts(_, _, _, _)
write_all_parts(w, f, parts, io_ok) ==
    IF parts = <<>> THEN [w |-> w, f |-> f, res |-> Ok("unit")]
    ELSE LET first == write_data(w, f, Head(parts), io_ok)
         IN  IF first.res.kind # "Ok" THEN first
             ELSE write_all_parts(first.w, first.f, Tail(parts), io_ok)

\* A slip: the counter is decremented with wrapping arithmetic.
write_face_Wrapping(w, f, b, verdict, io_ok) ==
    IF b = "debug" /\ verdict # "ok"
      THEN [w |-> w, f |-> f, res |-> Panic(verdict)]
    ELSE write_all_parts(
            IF b = "debug"
              THEN [w EXCEPT !.faces_count = Sub32(@, U32(1)).val] ELSE w,
            f, FaceParts, io_ok)

\* write_face.  verdict is what debug_face_data says of the face; it and
\* the counter exist in the debug build only.
write_face(w, f, b, verdict, io_ok) ==
    IF b = "debug" /\ verdict # "ok"
      THEN [w |-> w, f |-> f, res |-> Panic(verdict)]
    ELSE IF b = "debug" /\ Sub32(w.faces_count, U32(1)).of
      THEN [w |-> w, f |-> f, res |-> Panic("overflow")]
    ELSE write_all_parts(
            IF b = "debug"
              THEN [w EXCEPT !.faces_count = Sub32(@, U32(1)).val] ELSE w,
            f, FaceParts, io_ok)

(***************************************************************************)
(* SpecFace: one call of write_face on a freshly opened writer, for every  *)
(* normal with components in -1..1 and every three lattice points.         *)
(***************************************************************************)
MaxCoord == 1

FacePoints ==
    {Vector3(x, y, z) : x \in 0..MaxCoord, y \in 0..MaxCoord, z \in 0..1}

FaceNormals == {Vector3(x, y, z) : x \in -1..1, y \in -1..1, z \in -1..1}

FaceParams == Parameters(1, 1, 1, 1, Flat, Radii("solid", <<>>))

InitFace ==
    /\ params = FaceParams
    /\ build \in Builds
    /\ pc = "generating"
    /\ gen = None
    /\ polygon = <<>>
    /\ stl_writer = STLFileWriter(faces_count(params, build).val,
                                  HEADER_SIZE + COUNT_SIZE)
    /\ file = [created |-> TRUE, len |-> 0]
    /\ written = 0
    /\ last = None
    /\ summary = None
    /\ ret = None
    /\ result = None
    /\ call \in {[fn |-> "write_face", vec_n |-> n, vec_a |-> a, vec_b |-> b,
                   vec_c |-> c] :
                      n \in FaceNormals, a \in FacePoints, b \in FacePoints,
                      c \in FacePoints}
    /\ out = None

CallWriteFace ==
    /\ call.fn = "write_face"
    /\ out = None
    /\ LET verdict == debug_face_data(call.vec_n, call.vec_a, call.vec_b, call.vec_c)
           r == write_face(stl_writer, file, build, verdict, TRUE)
       IN  /\ stl_writer' = r.w
           /\ file' = r.f
           /\ out' = r.res
           /\ written' = IF r.res.kind = "Ok" THEN written + 1 ELSE written
    /\ UNCHANGED <<params, build, call, pc, gen, polygon, last, summary, ret, result>>

NextFace == CallWriteFace

SpecFace == InitFace /\ [][NextFace]_vars

(***************************************************************************)
(* The ear trimmer (eartrim.rs).                                           *)
(***************************************************************************)
trinagle_is_ear(point_left, point_middle, point_right) ==
    LET base_normal == xy_perp_clockwise(from_points(point_left, point_right))
        point_tip == from_points(point_left, point_middle)
    IN  xy_scalar_product(base_normal, point_tip) > 0

\* The indices the scan  for i in (1..len - 1).rev()  accepts.
EarIndices(points) ==
    {i \in 2..(Len(points) - 1) :
        trinagle_is_ear(points[i - 1], points[i], points[i + 1])}

Max(S) == CHOOSE m \in S : \A n \in S : n <= m

\* The first index the scan accepts, as a 1-based position.
FirstEar(points) == Max(EarIndices(points))

\* Vec::remove
Remove(points, i) ==
    [k \in 1..(Len(points) - 1) |-> IF k < i THEN points[k] ELSE points[k + 1]]

\* The face written for the ear at position i: normal and three vertices.
EarFace(points, i, normal_up) ==
    IF normal_up
      THEN <<UP, points[i - 1], points[i + 1], points[i]>>
      ELSE <<DOWN, points[i], points[i + 1], points[i - 1]>>

(***************************************************************************)
(* SpecEar: fill_polygon_by_ear_trimming on every simple lattice polygon   *)
(* with proper corners, in both vertex orders and with both normals.       *)
(***************************************************************************)
MaxEarCoord == 2

PolygonSizes == {3, 4, 5}

EarPoints == {Vector3(x, y, 0) : x \in 0..MaxEarCoord, y \in 0..MaxEarCoord}

\* Twice the signed area of the triangle a, b, c (positive: counter-clockwise).
Orient(a, b, c) == (b.x - a.x) * (c.y - a.y) - (b.y - a.y) * (c.x - a.x)

Sign(x) == IF x > 0 THEN 1 ELSE IF x < 0 THEN -1 ELSE 0

Between(a, b, c) ==
    /\ (IF a.x <= b.x THEN a.x <= c.x /\ c.x <= b.x ELSE b.x <= c.x /\ c.x <= a.x)
    /\ (IF a.y <= b.y THEN a.y <= c.y /\ c.y <= b.y ELSE b.y <= c.y /\ c.y <= a.y)

\* Do the closed segments a-b and c-d have a point in common?
SegmentsMeet(a, b, c, d) ==
    LET o1 == Sign(Orient(a, b, c))
        o2 == Sign(Orient(a, b, d))
        o3 == Sign(Orient(c, d, a))
        o4 == Sign(Orient(c, d, b))
    IN  IF o1 # o2 /\ o3 # o4 THEN TRUE
        ELSE IF o1 = 0 /\ Between(a, b, c) THEN TRUE
        ELSE IF o2 = 0 /\ Between(a, b, d) THEN TRUE
        ELSE IF o3 = 0 /\ Between(c, d, a) THEN TRUE
        ELSE o4 = 0 /\ Between(c, d, b)

Wrap(k, n) == ((k - 1) % n) + 1

\* A simple polygon: every corner is a proper corner and no two edges that
\* are not neighbours have a point in common.
IsSimple(pts) ==
    LET n == Len(pts)
    IN  /\ \A k \in 1..n :
              Orient(pts[Wrap(k + n - 1, n)], pts[k], pts[Wrap(k + 1, n)]) # 0
        /\ \A k \in 1..n : \A m \in (k + 2)..n :
              (k = 1 /\ m = n)
                \/ ~SegmentsMeet(pts[k], pts[Wrap(k + 1, n)], pts[m], pts[Wrap(m + 1, n)])

SimplePolygons ==
    UNION {{pts \in [1..k -> EarPoints] : IsSimple(pts)} : k \in PolygonSizes}

EarParams == Parameters(1, 1, 1, 1, Channel(3), Radii("solid", <<>>))

InitEar ==
    /\ params = EarParams
    /\ build \in Builds
    /\ pc = "trimming"
    /\ gen = None
    /\ call \in {[fn |-> "fill_polygon_by_ear_trimming", polygon_points |-> pts,
                   normal_up |-> up] : pts \in SimplePolygons, up \in BOOLEAN}
    /\ polygon = call.polygon_points
    /\ stl_writer = STLFileWriter(U32(Len(polygon) - 2), HEADER_SIZE + COUNT_SIZE)
    /\ file = [created |-> TRUE, len |-> 0]
    /\ written = 0
    /\ last = None
    /\ summary = None
    /\ ret = None
    /\ result = None
    /\ out = [faces |-> <<>>, ears |-> <<>>, res |-> None]

\* One pass of the 'outer loop in which the scan finds an ear.  out.ears
\* keeps the ears cut off so far, each as left, middle, right point.
TrimEar ==
    /\ pc = "trimming"
    /\ Len(polygon) >= 3
    /\ EarIndices(polygon) # {}
    /\ LET i == FirstEar(polygon)
           face == EarFace(polygon, i, call.normal_up)
           r == write_face(stl_writer, file, build,
                           debug_face_data(face[1], face[2], face[3], face[4]), TRUE)
       IN  /\ stl_writer' = r.w
           /\ file' = r.f
           /\ IF r.res.kind = "Ok"
                THEN /\ polygon' = Remove(polygon, i)
                     /\ written' = written + 1
                     /\ last' = [corners |-> face]
                     /\ out' = [out EXCEPT
                                  !.faces = Append(@, face),
                                  !.ears = Append(@, <<polygon[i - 1], polygon[i],
                                                       polygon[i + 1]>>)]
                     /\ pc' = pc
                ELSE /\ out' = [out EXCEPT !.res = r.res]
                     /\ pc' = "returned"
                     /\ UNCHANGED <<polygon, written, last>>
    /\ UNCHANGED <<params, build, call, gen, summary, ret, result>>

\* A slip: with no ear found the loop is left and Ok(()) returned.
NoEar_ReturnsOk ==
    /\ pc = "trimming"
    /\ Len(polygon) >= 3
    /\ EarIndices(polygon) = {}
    /\ out' = [out EXCEPT !.res = Ok("unit")]
    /\ pc' = "returned"
    /\ UNCHANGED <<params, build, call, gen, polygon, stl_writer, file, written,
                   last, summary, ret, result>>

\* The scan finds no ear: panic!("Failed to triangulate polygon iteratively")
NoEar ==
    /\ pc = "trimming"
    /\ Len(polygon) >= 3
    /\ EarIndices(polygon) = {}
    /\ out' = [out EXCEPT !.res = Panic("Failed to triangulate polygon iteratively")]
    /\ pc' = "returned"
    /\ UNCHANGED <<params, build, call, gen, polygon, stl_writer, file, written,
                   last, summary, ret, result>>

\* Fewer than three points are left: Ok(())
TrimDone ==
    /\ pc = "trimming"
    /\ Len(polygon) < 3
    /\ out' = [out EXCEPT !.res = Ok("unit")]
    /\ pc' = "returned"
    /\ UNCHANGED <<params, build, call, gen, polygon, stl_writer, file, written,
                   last, summary, ret, result>>

NextEar == TrimEar \/ NoEar \/ TrimDone

SpecEar == InitEar /\ [][NextEar]_vars

\* What a pass of the loop can change
EarVars == <<pc, polygon, stl_writer, file, written, out>>

\* The loop is sequential code: when the scan has found no ear, the panic!
\* after it is the next statement to run.
SpecEarFair == SpecEar /\ WF_EarVars(NoEar)

(***************************************************************************)
(* The meshers (construct.rs) as a cursor over the faces they write.  A    *)
(* cursor names the mesher, its loop variables and the number t of the     *)
(* face within one pass of the innermost loop.                             *)
(***************************************************************************)
Finished == [part |-> "finished"]

MesherPanic(why) == [part |-> "panic", why |-> why]

\* CircleConverter::n_points of the big circle: params.circle_points() as usize.
n_points(p, b) == ToNat(circle_points(p, b).val)

\* Has image_width * stack_horizontal left the u32 range?  Then, in a release
\* build, the sine table is shorter than the loops of the body mesher.
TableTooShort(p) == Mul32(U32(p.image_width), U32(p.stack_horizontal)).of

\* The first p at which get_xy(i + p * width + 1, ..) of column i = 0 indexes
\* past the table of n_points + 1 entries.
PanicP(p, b) == (n_points(p, b) + p.image_width - 1) \div p.image_width

\* A body mesher that skips nothing: the seam row of the last vertical
\* repeat is meshed too.
BodySkip_Never(p, j, q) == FALSE

\* if j == height - 1 && q == vstack - 1 { continue; }
BodySkip(p, j, q) == j = p.image_height - 1 /\ q = p.stack_vertical - 1

BodyCursor(i, j, pp, q, t) ==
    [part |-> "body", i |-> i, j |-> j, p |-> pp, q |-> q, t |-> t]

EndCursor(part, i, t) == [part |-> part, i |-> i, t |-> t]

\* step_scale of make_lids_holed: big_circle.n_points as f64 divided by
\* small_circle.n_points as f64.
step_scale(big, small) == f64_div(f64_from(big), f64_from(small))

\* A slip: the product cut to an integer by the cast, not rounded.
AnnulusEnd_Truncated(i, big, small) ==
    IF i # small THEN (i * big) \div small ELSE big

\* n_end of make_lids_holed: (i as f64 * step_scale).round() as usize, and
\* big_circle.n_points for the last i.
AnnulusEnd(i, big, small) ==
    IF i # small
      THEN f64_as_usize(f64_round(f64_mul(f64_from(i), step_scale(big, small))))
      ELSE big

HoledCursor(i, side, big, small) ==
    [part |-> "lids_holed", i |-> i, side |-> side,
     n_start |-> IF i = 1 THEN 0 ELSE AnnulusEnd(i - 1, big, small),
     n_end |-> AnnulusEnd(i, big, small)]

\* The polygon of one annulus segment: the new inner point, the outer points
\* n_end down to n_start, the old inner point.
SegmentPolygon(c) ==
    <<[ring |-> "small", n |-> c.i, side |-> c.side]>>
    \o [k \in 1..(c.n_end - c.n_start + 1) |->
            [ring |-> "big", n |-> c.n_end - k + 1, side |-> c.side]]
    \o <<[ring |-> "small", n |-> c.i - 1, side |-> c.side]>>

\* make_pattern_roller, lines 15-56: the mesher that follows the body.
EndsStart(p, b) ==
    CASE p.roller_end.kind = "Flat" ->
            IF n_points(p, b) >= 1 THEN EndCursor("lids_solid", 1, 1) ELSE Finished
      [] p.roller_end.kind = "Pin" -> EndCursor("pins", 1, 1)
      [] p.roller_end.kind = "Channel" -> EndCursor("channel", 1, 1)

\* The first face of make_cylinder_patterned, if it writes one.
FirstBody(p, b) ==
    IF TableTooShort(p)
      THEN IF PanicP(p, b) >= 1 /\ ~BodySkip(p, 0, 0)
             THEN BodyCursor(0, 0, 0, 0, 1)
             ELSE MesherPanic("index out of bounds")
    ELSE IF BodySkip(p, 0, 0) THEN EndsStart(p, b)
    ELSE BodyCursor(0, 0, 0, 0, 1)

NextColumn(p, b, i) ==
    IF i + 1 < p.image_width THEN BodyCursor(i + 1, 0, 0, 0, 1) ELSE EndsStart(p, b)

\* A slip: the loops over the grid nested the other way round, `for j` outside
\* `for i`.
NextBody_RowByRow(p, b, c) ==
    IF c.q + 1 < p.stack_vertical /\ ~BodySkip(p, c.j, c.q + 1)
      THEN BodyCursor(c.i, c.j, c.p, c.q + 1, 1)
    ELSE IF c.p + 1 < p.stack_horizontal /\ ~BodySkip(p, c.j, 0)
      THEN BodyCursor(c.i, c.j, c.p + 1, 0, 1)
    ELSE IF c.i + 1 < p.image_width
      THEN BodyCursor(c.i + 1, c.j, 0, 0, 1)
    ELSE IF c.j + 1 < p.image_height /\ ~BodySkip(p, c.j + 1, 0)
      THEN BodyCursor(0, c.j + 1, 0, 0, 1)
    ELSE EndsStart(p, b)

\* The face after the second triangle of quad (i, j, p, q).
NextBody(p, b, c) ==
    IF c.q + 1 < p.stack_vertical /\ ~BodySkip(p, c.j, c.q + 1)
      THEN BodyCursor(c.i, c.j, c.p, c.q + 1, 1)
    ELSE IF TableTooShort(p) /\ c.p + 1 >= PanicP(p, b)
      THEN MesherPanic("index out of bounds")
    ELSE IF c.p + 1 < p.stack_horizontal /\ ~BodySkip(p, c.j, 0)
      THEN BodyCursor(c.i, c.j, c.p + 1, 0, 1)
    ELSE IF c.j + 1 < p.image_height /\ ~BodySkip(p, c.j + 1, 0)
      THEN BodyCursor(c.i, c.j + 1, 0, 0, 1)
    ELSE NextColumn(p, b, c.i)

\* Faces written per pass of the loop of make_lids_solid, make_pins and
\* make_channel.
FacesPerPoint(part) ==
    CASE part = "lids_solid" -> 2
      [] part = "pins" -> 6
      [] part = "channel" -> 2

\* The number of passes of that loop.
LoopPoints(p, b, part) ==
    IF part = "lids_solid" THEN n_points(p, b) ELSE p.roller_end.circle_points

\* The cursor after the face at cursor c has been written (for the annulus
\* stitcher: after the polygon of c has been filled).
NextGen(p, b, c) ==
    CASE c.part = "body" ->
            IF c.t = 1 THEN [c EXCEPT !.t = 2] ELSE NextBody(p, b, c)
      [] c.part \in {"lids_solid", "pins", "channel"} ->
            IF c.t < FacesPerPoint(c.part) THEN [c EXCEPT !.t = @ + 1]
            ELSE IF c.i < LoopPoints(p, b, c.part) THEN EndCursor(c.part, c.i + 1, 1)
            ELSE IF c.part = "lids_solid" THEN Finished
            ELSE HoledCursor(1, "top", n_points(p, b), p.roller_end.circle_points)
      [] c.part = "lids_holed" ->
            IF c.side = "top" THEN [c EXCEPT !.side = "bot"]
            ELSE IF c.i < p.roller_end.circle_points
              THEN HoledCursor(c.i + 1, "top", n_points(p, b),
                               p.roller_end.circle_points)
            ELSE Finished

(***************************************************************************)
(* Spec: one run of actual_work (main.rs), a step per face written.        *)
(***************************************************************************)
FaceCap == 260        \* no run is followed beyond FaceCap faces

SmallParams ==
    {Parameters(w, h, sh, sv, e, Radii(pattern, <<>>)) :
        w \in 1..MaxDim, h \in 1..MaxDim, sh \in 1..MaxStack, sv \in 1..MaxStack,
        e \in EndSpecs(3..MaxInner), pattern \in {"solid", "ramp"}}

\* A roller of 200 faces: more than one buffer of the BufWriter.
LongParams == {Parameters(2, 2, 5, 5, Flat, Radii("solid", <<>>))}

\* Sizes whose face count leaves the u32 range: in 8 * circle_points, in
\* image_height * stack_vertical (641 * 6700417 = 2^32 + 1), in
\* image_width * stack_horizontal, and in the checked product.
OverflowParams ==
    {Parameters(524288, 1, MaxStackCli, 1, Pin(2 ^ 29), Radii("solid", <<>>)),
     Parameters(1, 6700417, 1, 641, Flat, Radii("solid", <<>>)),
     Parameters(4294968, 1, MaxStackCli, 1, Flat, Radii("solid", <<>>)),
     Parameters(65536, 65536, 1, 1, Flat, Radii("solid", <<>>))}

RunParams ==
    {p \in SmallParams \cup LongParams \cup OverflowParams :
        InnerFits(p.image_width, p.stack_horizontal, p.roller_end)}

Init ==
    /\ params \in RunParams
    /\ build \in Builds
    /\ RunIdle
    /\ call = [fn |-> "actual_work"]
    /\ out = None

\* File::create(..).with_context(..)
OpenContext(p) ==
    [text |-> "Failed to open file for writing", path |-> p.output_filename]

\* The outcomes of the file for a write of len bytes: it is not touched
\* unless the buffer has to be emptied first.
IoOutcomes(w, len) == IF NeedsFlush(w, len) THEN BOOLEAN ELSE {TRUE}

FACE_SIZE == 50       \* 12 + 12 + 12 + 12 + 2

PolygonOf(c) == IF c.part = "lids_holed" THEN SegmentPolygon(c) ELSE <<>>

\* What is known of the face at cursor c: the cursor and, for the body, the
\* corners of the quad in the order they are written.
FaceOf(p, c) ==
    [cursor |-> c,
     corners |-> IF c.part = "body"
                   THEN BodyTriangles(split_quad_optimal(p, c.i, c.j).tlbr_split)[c.t]
                   ELSE <<>>]

\* print_summary returns r: the summary is printed, or the error (or panic)
\* of the face count ends the run.
Summarized(r) ==
    IF r.kind = "Ok"
      THEN summary' = r.val /\ pc' = "summarized" /\ UNCHANGED result
      ELSE result' = r /\ pc' = "done" /\ UNCHANGED summary

\* parameters.print_summary()?
PrintSummary ==
    /\ call.fn = "actual_work"
    /\ pc = "idle"
    /\ Summarized(bytes_estimate(params, build))
    /\ UNCHANGED <<params, build, call, out, gen, polygon, stl_writer, file,
                   written, last, ret>>

\* STLFileWriter::new, line 65: the file is created (and truncated).
CreateFile ==
    /\ pc = "summarized"
    /\ file' = [created |-> TRUE, len |-> 0]
    /\ pc' = "created"
    /\ UNCHANGED <<params, build, call, out, gen, polygon, stl_writer, written,
                   last, summary, ret, result>>

\* STLFileWriter::new, lines 65-66: File::create fails.
CreateFileFails ==
    /\ pc = "summarized"
    /\ result' = Err("io", <<OpenContext(params)>>)
    /\ pc' = "done"
    /\ UNCHANGED <<params, build, call, out, gen, polygon, stl_writer, file,
                   written, last, summary, ret>>

\* params.faces_count()? has returned n_faces: the writer is built around it.
WriterBuilt(n_faces) ==
    IF n_faces.kind = "Ok"
      THEN /\ stl_writer' = STLFileWriter(n_faces.val, 0)
           /\ pc' = "writer_built"
           /\ UNCHANGED result
      ELSE /\ result' = n_faces
           /\ pc' = "done"
           /\ UNCHANGED stl_writer

\* STLFileWriter::new, lines 67-72.
BuildWriter ==
    /\ pc = "created"
    /\ WriterBuilt(faces_count(params, build))
    /\ UNCHANGED <<params, build, call, out, gen, polygon, file, written, last,
                   summary, ret>>

\* A write of len bytes by STLFileWriter::new; an error drops the writer.
NewWrites(at, len, then) ==
    /\ pc = at
    /\ \E io_ok \in IoOutcomes(stl_writer, len) :
          LET r == write_data(stl_writer, file, len, io_ok)
          IN  /\ stl_writer' = r.w
              /\ file' = r.f
              /\ IF r.res.kind = "Ok"
                   THEN pc' = then /\ UNCHANGED ret
                   ELSE pc' = "dropping" /\ ret' = r.res
    /\ UNCHANGED <<params, build, call, out, gen, polygon, written, last,
                   summary, result>>

\* stl_writer.write_header()?
WriteHeader == NewWrites("writer_built", HEADER_SIZE, "header_written")

\* A constructor that writes the count where the header belongs.
WriteNFaces_BeforeHeader == NewWrites("writer_built", COUNT_SIZE, "header_written")

\* stl_writer.write_n_faces()?
WriteNFaces == NewWrites("header_written", COUNT_SIZE, "opened")

\* make_pattern_roller, lines 10-14: the sine table is built (it cannot be
\* built for zero points) and the body mesher is entered.
StartRoller ==
    /\ pc = "opened"
    /\ LET n == circle_points(params, build)
       IN  IF n.kind # "Ok"
             THEN ret' = n /\ pc' = "dropping" /\ UNCHANGED <<gen, polygon>>
           ELSE IF n.val = Zero32
             THEN /\ ret' = Panic("index out of bounds")
                  /\ pc' = "dropping"
                  /\ UNCHANGED <<gen, polygon>>
           ELSE /\ gen' = FirstBody(params, build)
                /\ polygon' = PolygonOf(gen')
                /\ pc' = "generating"
                /\ UNCHANGED ret
    /\ UNCHANGED <<params, build, call, out, stl_writer, file, written, last,
                   summary, result>>

\* The state after write_face has returned r for the face at cursor c;
\* after, the cursor and polygon that follow when it returned Ok.
AfterFace(r, face, after, rest) ==
    /\ stl_writer' = r.w
    /\ file' = r.f
    /\ IF r.res.kind = "Ok"
         THEN /\ written' = written + 1
              /\ last' = face
              /\ gen' = after
              /\ polygon' = rest
              /\ UNCHANGED <<pc, ret>>
         ELSE /\ ret' = r.res
              /\ pc' = "dropping"
              /\ UNCHANGED <<written, last, gen, polygon>>
    /\ UNCHANGED <<params, build, call, out, summary, result>>

\* One face of the body, the solid lids, the pins or the channel is handed to
\* write_face and passes its validation.
FaceWritten ==
    /\ pc = "generating"
    /\ gen.part \in {"body", "lids_solid", "pins", "channel"}
    /\ written < FaceCap
    /\ \E io_ok \in IoOutcomes(stl_writer, FACE_SIZE) :
          LET after == NextGen(params, build, gen)
          IN  AfterFace(write_face(stl_writer, file, build, "ok", io_ok),
                        FaceOf(params, gen), after, PolygonOf(after))

\* One pass of the 'outer loop of fill_polygon_by_ear_trimming in which the
\* scan finds an ear.  The points are not placed in the plane here, so the
\* ear found is any inner point of the polygon.
EarWritten ==
    /\ pc = "generating"
    /\ gen.part = "lids_holed"
    /\ Len(polygon) >= 3
    /\ written < FaceCap
    /\ \E i \in 2..(Len(polygon) - 1) :
       \E io_ok \in IoOutcomes(stl_writer, FACE_SIZE) :
          LET rest == Remove(polygon, i)
              after == IF Len(rest) >= 3 THEN gen ELSE NextGen(params, build, gen)
          IN  AfterFace(write_face(stl_writer, file, build, "ok", io_ok),
                        [cursor |-> gen,
                         corners |-> <<polygon[i - 1], polygon[i], polygon[i + 1]>>],
                        after,
                        IF Len(rest) >= 3 THEN rest ELSE PolygonOf(after))

\* The validation of the debug build rejects the face at the cursor: the
\* coordinates are not part of this specification, so any face may be one.
FaceRejected ==
    /\ pc = "generating"
    /\ build = "debug"
    /\ gen.part \in {"body", "lids_solid", "pins", "channel", "lids_holed"}
    /\ written < FaceCap
    /\ \E verdict \in {"Encountered degenerate face", "Encountered inverted normal"} :
          AfterFace(write_face(stl_writer, file, build, verdict, TRUE),
                    FaceOf(params, gen), gen, polygon)

\* The scan of fill_polygon_by_ear_trimming finds no ear.
NoEarPanics ==
    /\ pc = "generating"
    /\ gen.part = "lids_holed"
    /\ Len(polygon) >= 3
    /\ ret' = Panic("Failed to triangulate polygon iteratively")
    /\ pc' = "dropping"
    /\ UNCHANGED <<params, build, call, out, gen, polygon, stl_writer, file,
                   written, last, summary, result>>

\* get_xy indexes past the sine table.
MesherPanics ==
    /\ pc = "generating"
    /\ gen.part = "panic"
    /\ ret' = Panic(gen.why)
    /\ pc' = "dropping"
    /\ UNCHANGED <<params, build, call, out, gen, polygon, stl_writer, file,
                   written, last, summary, result>>

\* The last mesher returns Ok(()).
RollerDone ==
    /\ pc = "generating"
    /\ gen.part = "finished"
    /\ ret' = Ok("unit")
    /\ pc' = "dropping"
    /\ UNCHANGED <<params, build, call, out, gen, polygon, stl_writer, file,
                   written, last, summary, result>>

\* impl Drop for STLFileWriter (debug build only): the assertion fails.
CountMismatch == build = "debug" /\ stl_writer.faces_count # Zero32

\* A panic in drop while a panic unwinds aborts the process at once.
DropAborts == CountMismatch /\ ret.kind = "Panic"

\* What actual_work ends with once the writer has been dropped.
AfterDrop ==
    IF DropAborts THEN Panic("panic in a destructor during cleanup")
    ELSE IF CountMismatch
      THEN Panic("Faces count mismatch: stl file was not fully written")
    ELSE ret

\* The writer goes out of scope: Drop::drop, then the BufWriter writes what
\* it holds to the file.
DropWriter ==
    /\ pc = "dropping"
    /\ result' = AfterDrop
    /\ IF DropAborts
         THEN UNCHANGED <<stl_writer, file>>
         ELSE /\ file' = [file EXCEPT !.len = @ + stl_writer.buffered]
              /\ stl_writer' = [stl_writer EXCEPT !.buffered = 0]
    /\ pc' = "done"
    /\ UNCHANGED <<params, build, call, out, gen, polygon, written, last,
                   summary, ret>>

\* The same, but the last write to the file fails: BufWriter's drop ignores
\* the error.
DropWriterFlushFails ==
    /\ pc = "dropping"
    /\ ~DropAborts
    /\ stl_writer.buffered > 0
    /\ result' = AfterDrop
    /\ pc' = "done"
    /\ UNCHANGED <<params, build, call, out, gen, polygon, stl_writer, file,
                   written, last, summary, ret>>

Next ==
    \/ PrintSummary
    \/ CreateFile
    \/ CreateFileFails
    \/ BuildWriter
    \/ WriteHeader
    \/ WriteNFaces
    \/ StartRoller
    \/ FaceWritten
    \/ EarWritten
    \/ FaceRejected
    \/ NoEarPanics
    \/ MesherPanics
    \/ RollerDone
    \/ DropWriter
    \/ DropWriterFlushFails

Spec == Init /\ [][Next]_vars

(***************************************************************************)
(* Claims about faces_count (SpecCount).                                   *)
(***************************************************************************)
\* The exact quantities of the face count, computed in the order of the
\* closed formula 2*(W*Hs)*(H*Vs-1) + 2*(W*Hs) + k*innerPoints.
ExactWidth(p) == Mul32(U32(p.image_width), U32(p.stack_horizontal))

ExactHeight(p) == Mul32(U32(p.image_height), U32(p.stack_vertical))

ExactBody(p) ==
    Mul32(Mul32(U32(2), ExactWidth(p).val).val, Sub32(ExactHeight(p).val, U32(1)).val)

ExactInner(p) ==
    Mul32(U32(CASE p.roller_end.kind = "Flat" -> 0
                [] p.roller_end.kind = "Pin" -> 8
                [] p.roller_end.kind = "Channel" -> 4),
          U32(p.roller_end.circle_points))

ExactEnds(p) == Add32(Mul32(U32(2), ExactWidth(p).val).val, ExactInner(p).val)

ExactFaces(p) == Add32(ExactBody(p).val, ExactEnds(p).val)

\* Some product or sum of the face count does not fit in u32.  A flag is exact
\* as long as no earlier one is raised, so the disjunction is exact.
AnyOverflow(p) ==
    \/ ExactWidth(p).of
    \/ ExactHeight(p).of
    \/ Mul32(ExactWidth(p).val, Sub32(ExactHeight(p).val, U32(1)).val).of
    \/ Mul32(U32(2), ExactWidth(p).val).of
    \/ ExactBody(p).of
    \/ ExactInner(p).of
    \/ ExactEnds(p).of
    \/ ExactFaces(p).of

\* C3: whenever no overflow occurs, faces_count() returns
\* 2*(W*Hs)*(H*Vs-1) + 2*(W*Hs), plus 8*innerPoints for a Pin end and
\* 4*innerPoints for a Channel end.
C3_FacesCountFormula ==
    (out # None /\ ~AnyOverflow(params)) =>
        out.n_faces = Ok(ExactFaces(params).val)

C3_Witness ==
    /\ out # None
    /\ ~AnyOverflow(params)
    /\ params.roller_end.kind = "Pin"
    /\ params.image_height * params.stack_vertical > 1
    /\ out.n_faces.kind = "Ok"
    /\ ToNat(out.n_faces.val) =
          2 * (params.image_width * params.stack_horizontal)
            * (params.image_height * params.stack_vertical - 1)
          + 2 * (params.image_width * params.stack_horizontal)
          + 8 * params.roller_end.circle_points

\* C4: faces_count() returns the overflow error, never a wrapped value and
\* never a panic, whenever the face count or an intermediate quantity of it
\* does not fit in u32.
C4_OverflowIsAlwaysAnError ==
    (out # None /\ AnyOverflow(params)) =>
        (out.n_faces.kind = "Err" /\ out.n_faces.cause = "overflow")

(***************************************************************************)
(* Claims about the diagonal selector (SpecSplit).                         *)
(***************************************************************************)
\* grid(col, row) with the column taken modulo W (and the row as the code
\* looks it up).
Grid(col, row) == get_rho_looped(params, col, row)

\* The sum of squared errors of the radii along each diagonal, taken in
\* spatial order.
SseDiagonalA(col, row) ==
    lls_sse(Grid(col - 1, row - 1), Grid(col, row),
            Grid(col + 1, row + 1), Grid(col + 2, row + 2))

SseDiagonalB(col, row) ==
    lls_sse(Grid(col - 1, row + 2), Grid(col, row + 1),
            Grid(col + 1, row), Grid(col + 2, row - 1))

\* The score the code computes for diagonal B: the two quad corners are
\* handed over in the order top-right, bottom-left.
TrblScoreOfCode(col, row) ==
    lls_sse(Grid(col - 1, row + 2), Grid(col + 1, row),
            Grid(col, row + 1), Grid(col + 2, row - 1))

Corners(face) == {face[k] : k \in 1..3}

SharedEdge(faces) == Corners(faces[1]) \cap Corners(faces[2])

\* C6 as stated: diagonal A (tl-br) is the shared edge of the two triangles
\* exactly when SSE(A) <= SSE(B); a tie selects diagonal A.
C6_TieSelectsDiagonalA ==
    (out # None /\ call.fn = "split_quad_optimal") =>
        /\ (SseDiagonalA(call.i, call.j) <= SseDiagonalB(call.i, call.j)
                => SharedEdge(out.faces) = {"tl", "br"})
        /\ (SseDiagonalA(call.i, call.j) > SseDiagonalB(call.i, call.j)
                => SharedEdge(out.faces) = {"bl", "tr"})

\* C6 amended: diagonal A is the shared edge exactly when the score the code
\* computes for A is strictly smaller than the score it computes for B;
\* otherwise, a tie included, diagonal B is the shared edge.
C6_StrictlySmallerSelectsDiagonalA ==
    (out # None /\ call.fn = "split_quad_optimal") =>
        /\ (SseDiagonalA(call.i, call.j) < TrblScoreOfCode(call.i, call.j)
                => SharedEdge(out.faces) = {"tl", "br"})
        /\ (SseDiagonalA(call.i, call.j) >= TrblScoreOfCode(call.i, call.j)
                => SharedEdge(out.faces) = {"bl", "tr"})

\* A tie between two non-constant diagonals, settled for diagonal B.
C6_Witness ==
    /\ out # None
    /\ call.fn = "split_quad_optimal"
    /\ SseDiagonalA(call.i, call.j) = TrblScoreOfCode(call.i, call.j)
    /\ SseDiagonalA(call.i, call.j) > 0
    /\ SharedEdge(out.faces) = {"bl", "tr"}

\* C7: diagonal A is scored on grid(col-1,row-1), grid(col,row),
\* grid(col+1,row+1), grid(col+2,row+2), diagonal B on grid(col-1,row+2),
\* grid(col,row+1), grid(col+1,row), grid(col+2,row-1), each in that order,
\* and the corners returned are grid(col,row), grid(col+1,row),
\* grid(col,row+1), grid(col+1,row+1).
C7_DiagonalsScoredInSpatialOrder ==
    (out # None /\ call.fn = "split_quad_optimal") =>
        LET col == call.i
            row == call.j
        IN  /\ out.split.tlbr_args = <<Grid(col - 1, row - 1), Grid(col, row),
                                       Grid(col + 1, row + 1), Grid(col + 2, row + 2)>>
            /\ out.split.trbl_args = <<Grid(col - 1, row + 2), Grid(col, row + 1),
                                       Grid(col + 1, row), Grid(col + 2, row - 1)>>
            /\ out.split.quad_tl = Grid(col, row)
            /\ out.split.quad_tr = Grid(col + 1, row)
            /\ out.split.quad_bl = Grid(col, row + 1)
            /\ out.split.quad_br = Grid(col + 1, row + 1)

(***************************************************************************)
(* Claims about write_face (SpecFace).                                     *)
(***************************************************************************)
Minus(v, u) == Vector3(v.x - u.x, v.y - u.y, v.z - u.z)

Cross(v, u) ==
    Vector3(v.y * u.z - v.z * u.y, v.z * u.x - v.x * u.z, v.x * u.y - v.y * u.x)

Dot(v, u) == v.x * u.x + v.y * u.y + v.z * u.z

\* a, b, c pairwise distinct, n non-zero and ((b - a) x (c - a)) . n > 0
WellFormedFace(n, a, b, c) ==
    /\ a # b /\ b # c /\ c # a
    /\ n # ZERO
    /\ Dot(Cross(Minus(b, a), Minus(c, a)), n) > 0

FreshWriter == STLFileWriter(faces_count(params, build).val, HEADER_SIZE + COUNT_SIZE)

RECURSIVE Shoelace(_, _)
Shoelace(pts, k) ==
    IF k = 0 THEN 0
    ELSE LET a == pts[k]
             b == pts[Wrap(k + 1, Len(pts))]
         IN  a.x * b.y - b.x * a.y + Shoelace(pts, k - 1)

Area2(pts) == Shoelace(pts, Len(pts))

\* The triangles written are the ears cut off the polygon one after another,
\* so their signed areas always add up to the polygon's; they lie inside the
\* polygon and cover it without overlap exactly when, besides, each of them
\* is turned the way the polygon is.
Tiles(ears, pts) ==
    \A k \in 1..Len(ears) :
        Sign(Orient(ears[k][1], ears[k][2], ears[k][3])) = Sign(Area2(pts))

Clockwise(pts) == Area2(pts) < 0

\* C8 as stated: on any simple polygon with k >= 3 vertices, in either
\* vertex order, ear trimming ends with Ok, having written exactly k - 2
\* triangles that lie inside the polygon and cover it without overlap.
C8_EarTrimmingTilesAnySimplePolygon ==
    (call.fn = "fill_polygon_by_ear_trimming" /\ pc = "returned") =>
        /\ out.res = Ok("unit")
        /\ Len(out.faces) = Len(call.polygon_points) - 2
        /\ Len(out.ears) = Len(out.faces)
        /\ Tiles(out.ears, call.polygon_points)

(***************************************************************************)
(* Claims about a run of actual_work (Spec).                               *)
(***************************************************************************)
\* The number of faces of the roller, by the closed formula, in plain
\* integers (the rollers that complete are small).
FormulaFaces(p) ==
    2 * (p.image_width * p.stack_horizontal) * (p.image_height * p.stack_vertical - 1)
      + 2 * (p.image_width * p.stack_horizontal)
      + (CASE p.roller_end.kind = "Flat" -> 0
           [] p.roller_end.kind = "Pin" -> 8 * p.roller_end.circle_points
           [] p.roller_end.kind = "Channel" -> 4 * p.roller_end.circle_points)

PassCompleted == pc \in {"dropping", "done"} /\ ret = Ok("unit")

PassUnderWay == pc = "generating" /\ ret = None

\* C1: a generation pass that completes without error has written exactly
\* faces_count() faces, for every end variant and every size, and in the
\* debug build the remaining-face counter of the writer is zero when it is
\* dropped.  So a pass under way has never written more than faces_count()
\* faces: the faces written are not taken back.
C1_CompletedPassWroteFacesCount ==
    /\ PassCompleted =>
          /\ faces_count(params, build) = Ok(U32(written))
          /\ written = FormulaFaces(params)
          /\ build = "debug" => stl_writer.faces_count = Zero32
    /\ PassUnderWay => written <= ToNat(faces_count(params, build).val)

\* C2: after a successful pass the file holds the 80-byte header, the
\* 4-byte count N and N records of 50 bytes: its size is 84 + 50 * N, the
\* value bytes_estimate() reported before generation.
C2_FileSizeIsWhatWasEstimated ==
    (pc = "done" /\ result = Ok("unit")) =>
        /\ written = ToNat(faces_count(params, build).val)
        /\ file.len = 84 + 50 * ToNat(faces_count(params, build).val)
        /\ Small64(summary) /\ ToNat64(summary) = file.len

\* C5: when the face-count computation overflows, actual_work returns the
\* overflow error before the output file is created and before any face is
\* generated.
C5_OverflowIsReturnedBeforeTheFileIsOpened ==
    AnyOverflow(params) =>
        /\ ~file.created
        /\ written = 0
        /\ pc \in {"idle", "done"}
        /\ pc = "done" => (result.kind = "Err" /\ result.cause = "overflow")

IoError(r) == r.kind = "Err" /\ r.cause = "io"

CarriesPath(r) ==
    \E k \in 1..Len(r.context) : r.context[k].path = params.output_filename

\* C10 as stated: every I/O error raised while opening the file or writing
\* the header, the count or a face record is returned to the caller at once
\* and carries the path of the output file as context.
C10_EveryIoErrorCarriesThePath ==
    /\ IoError(ret) => CarriesPath(ret)
    /\ IoError(result) => CarriesPath(result)
    /\ (pc = "done" /\ IoError(ret)) => result = ret

\* C11: a pass reports success only if every byte of the header, the count
\* and the faces has reached the file, those held in the buffer when the
\* writer is dropped included; and after a failed write nothing more is
\* written: the bytes whose write failed are still in the buffer at the end.
C11_SuccessMeansEveryByteIsInTheFile ==
    /\ (pc = "done" /\ result = Ok("unit")) =>
          /\ stl_writer.buffered = 0
          /\ file.len = HEADER_SIZE + COUNT_SIZE + FACE_SIZE * written
    /\ (pc = "done" /\ IoError(ret)) => stl_writer.buffered > 0

\* The bytes the writer has been handed: those in the file and those in the
\* buffer.
Sunk == file.len + stl_writer.buffered

HasWriter == stl_writer # None

\* What the sink holds at each position of the run.
SinkPhase ==
    CASE pc \in {"idle", "summarized"} ->
            ~file.created /\ ~HasWriter /\ written = 0
      [] pc = "created" ->
            file.created /\ file.len = 0 /\ ~HasWriter /\ written = 0
      [] pc = "writer_built" -> file.created /\ Sunk = 0 /\ written = 0
      [] pc = "header_written" -> file.created /\ Sunk = HEADER_SIZE /\ written = 0
      [] pc = "opened" ->
            file.created /\ Sunk = HEADER_SIZE + COUNT_SIZE /\ written = 0
      [] pc = "generating" ->
            file.created /\ Sunk = HEADER_SIZE + COUNT_SIZE + FACE_SIZE * written
      [] pc \in {"dropping", "done"} ->
            IF HasWriter
              THEN /\ file.created
                   /\ Sunk >= HEADER_SIZE + COUNT_SIZE + FACE_SIZE * written
                   /\ Sunk < HEADER_SIZE + COUNT_SIZE + FACE_SIZE * (written + 1)
              ELSE pc = "done" /\ file.len = 0 /\ written = 0

\* The steps of the sink, in their order.
SinkOrder ==
    {<<"idle", "summarized">>, <<"idle", "done">>,
     <<"summarized", "created">>, <<"summarized", "done">>,
     <<"created", "writer_built">>, <<"created", "done">>,
     <<"writer_built", "header_written">>, <<"header_written", "opened">>,
     <<"opened", "generating">>, <<"opened", "dropping">>,
     <<"generating", "dropping">>, <<"dropping", "done">>}

SinkStep ==
    /\ pc' # pc => <<pc, pc'>> \in SinkOrder
    /\ file.created => file'.created /\ file'.len >= file.len
    /\ file'.created /\ ~file.created => pc = "summarized" /\ file'.len = 0
    /\ HasWriter => HasWriter' /\ Sunk' >= Sunk
    /\ written' # written => pc = "generating" /\ written' = written + 1
    /\ pc = "done" => UNCHANGED vars

\* C12: in every run the sink is opened, then takes the 80-byte header,
\* then the 4-byte count, then face records only, then is closed, in that
\* order and each once: no face is written before the count and nothing is
\* written once the pass has returned.
C12_SinkIsWrittenInOrder == []SinkPhase /\ [][SinkStep]_vars

\* A run that has gone through every step: faces were written, some of them
\* emptied out of a full buffer, and the writer is closed with the rest.
C12_Witness ==
    /\ pc = "done"
    /\ result = Ok("unit")
    /\ written > 163
    /\ stl_writer.buffered = 0
    /\ file.len = HEADER_SIZE + COUNT_SIZE + FACE_SIZE * written

(***************************************************************************)
(* CircleConverter (circles.rs).  The f64 pair phi.sin_cos() is kept as     *)
(* the angle it was computed from, n turns out of n_points: the pair of a   *)
(* full turn is not the pair of angle 0 in f64 (sin(TAU) is not 0.0).       *)
(***************************************************************************)
\* (n as f64 * phi_step).sin_cos(), phi_step = TAU / n_points
sin_cos(n, points) == [turns |-> n, of |-> points]

\* A constructor that computes the closing entry from its angle.
CircleConverter_SeamComputed(points, axis_shift) ==
    [kind |-> "CircleConverter",
     sin_cos_table |-> [k \in 1..(points + 1) |-> sin_cos(k - 1, points)],
     axis_shift |-> axis_shift,
     n_points |-> points]

\* CircleConverter::new: n_points entries, then sin_cos_table[0] once more;
\* with no entry to copy the index panics.
CircleConverter(points, axis_shift) ==
    LET table == [k \in 1..points |-> sin_cos(k - 1, points)]
    IN  IF Len(table) = 0
          THEN Panic("index out of bounds")
          ELSE [kind |-> "CircleConverter",
                sin_cos_table |-> Append(table, table[1]),
                axis_shift |-> axis_shift,
                n_points |-> points]

\* CircleConverter::get_xy: rho * cos_phi + axis_shift, rho * sin_phi +
\* axis_shift, kept as the table entry, the radius and the shift.
get_xy(circle, n, rho) ==
    IF n + 1 > Len(circle.sin_cos_table)
      THEN Panic("index out of bounds")
      ELSE [kind |-> "xy", sin_cos |-> circle.sin_cos_table[n + 1],
            rho |-> rho, axis_shift |-> circle.axis_shift]

(***************************************************************************)
(* SpecCircle: a table built for 0..MaxPoints points and one get_xy on it.  *)
(***************************************************************************)
MaxPoints == 6

MaxShift == 2

InitCircle ==
    /\ params = FaceParams
    /\ build \in Builds
    /\ RunIdle
    /\ call \in {[fn |-> "CircleConverter::new", n_points |-> np,
                   axis_shift |-> sh, n |-> n, rho |-> rho] :
                     np \in 0..MaxPoints, sh \in 0..MaxShift,
                     n \in 0..(MaxPoints + 1), rho \in 1..MaxRadius}
    /\ out = None

\* CircleConverter::new(n_points, axis_shift)
NewCircle ==
    /\ call.fn = "CircleConverter::new"
    /\ out = None
    /\ out' = [circle |-> CircleConverter(call.n_points, call.axis_shift),
               xy |-> None]
    /\ UNCHANGED <<params, build, call, RunVars>>

\* circle.get_xy(n, rho) on the table built
CallGetXy ==
    /\ call.fn = "CircleConverter::new"
    /\ out # None
    /\ out.circle.kind = "CircleConverter"
    /\ out.xy = None
    /\ out' = [out EXCEPT !.xy = get_xy(out.circle, call.n, call.rho)]
    /\ UNCHANGED <<params, build, call, RunVars>>

NextCircle == NewCircle \/ CallGetXy

SpecCircle == InitCircle /\ [][NextCircle]_vars

(***************************************************************************)
(* Claims about CircleConverter (SpecCircle).                               *)
(***************************************************************************)
CircleBuilt == out # None /\ out.circle.kind = "CircleConverter"

\* C14: for every n >= 3 the table of CircleConverter::new(n, shift) has
\* exactly n + 1 entries and entry n is entry 0, so get_xy(0, r) and
\* get_xy(n, r) are the same point for every radius r.
C14_SeamIsClosed ==
    (out # None /\ call.n_points >= 3) =>
        /\ CircleBuilt
        /\ out.circle.n_points = call.n_points
        /\ Len(out.circle.sin_cos_table) = call.n_points + 1
        /\ out.circle.sin_cos_table[call.n_points + 1] = out.circle.sin_cos_table[1]
        /\ \A k \in 1..call.n_points :
              out.circle.sin_cos_table[k] = sin_cos(k - 1, call.n_points)
        /\ \A r \in 1..MaxRadius :
              /\ get_xy(out.circle, 0, r).kind = "xy"
              /\ get_xy(out.circle, 0, r) = get_xy(out.circle, call.n_points, r)
        /\ (out.xy # None /\ call.n = call.n_points) =>
              out.xy = get_xy(out.circle, 0, call.rho)

\* get_xy has been called at the seam of a table of five points.
C14_Witness ==
    /\ CircleBuilt
    /\ call.n_points = 5
    /\ call.n = 5
    /\ out.xy # None
    /\ out.xy.kind = "xy"
    /\ out.xy.sin_cos = sin_cos(0, 5)

(***************************************************************************)
(* parse_macthes (parameters.rs): the roller dimensions and their          *)
(* validation.  An f64 is a fraction <<numerator, denominator>> with a     *)
(* positive denominator, compared exactly; NaN is the pair with            *)
(* denominator 0, and every comparison with it is false.                   *)
(***************************************************************************)
NaN == <<0, 0>>

IsNaN(a) == a[2] = 0

F64(k) == <<k, 1>>

RECURSIVE GCD(_, _)
GCD(a, b) == IF b = 0 THEN a ELSE GCD(b, a % b)

\* The fraction n / d in lowest terms, for d > 0
Fraction(n, d) == <<n \div GCD(Abs(n), d), d \div GCD(Abs(n), d)>>

FMul(a, b) ==
    IF IsNaN(a) \/ IsNaN(b) THEN NaN ELSE Fraction(a[1] * b[1], a[2] * b[2])

FDiv(a, b) ==
    IF IsNaN(a) \/ IsNaN(b) \/ b[1] <= 0 THEN NaN
    ELSE Fraction(a[1] * b[2], a[2] * b[1])

FSub(a, b) ==
    IF IsNaN(a) \/ IsNaN(b) THEN NaN
    ELSE Fraction(a[1] * b[2] - b[1] * a[2], a[2] * b[2])

FGt(a, b) == ~IsNaN(a) /\ ~IsNaN(b) /\ a[1] * b[2] > b[1] * a[2]

\* std::f64::consts::PI, to the fraction 355/113
PI == <<355, 113>>

\* matches.contains_id(option)
Given(m, option) == option \in m.given

\* anyhow's ensure!: the error with its message.
Invalid(text) == Err("invalid", <<[text |-> text]>>)

\* lines 128-143: the diameter, the length and the pixel size, one of the
\* first two given and the other derived from the aspect ratio.
roller_dimensions(m) ==
    LET surface_width_px == m.width * m.stack_horizontal
        surface_height_px == m.height * m.stack_vertical
        surface_aspect_ratio == <<surface_width_px, surface_height_px>>
    IN  IF Given(m, "roller_diameter")
          THEN [diameter |-> m.roller_diameter,
                length |-> FDiv(FMul(PI, m.roller_diameter), surface_aspect_ratio),
                pixel_size |-> FDiv(FMul(PI, m.roller_diameter), F64(surface_width_px))]
          ELSE [diameter |-> FDiv(FMul(m.roller_length, surface_aspect_ratio), PI),
                length |-> m.roller_length,
                pixel_size |-> FDiv(m.roller_length, F64(surface_height_px))]

\* lines 148-150: the relief depth given, or 0.02 * diameter
relief_depth_of(m, diameter) ==
    IF Given(m, "relief_depth") THEN m.relief_depth ELSE FMul(<<1, 50>>, diameter)

\* The comparison the message of the channel check spells out.
InnerFitsBody_AsTheMessageSays(diameter, relief_depth, inner_diameter) ==
    FGt(FSub(inner_diameter, FMul(F64(2), relief_depth)), diameter)

\* diameter - 2.0 * relief_depth > pin_diameter (or channel_diameter)
InnerFitsBody(diameter, relief_depth, inner_diameter) ==
    FGt(FSub(diameter, FMul(F64(2), relief_depth)), inner_diameter)

\* std::f64::consts::TAU, twice the fraction taken for PI
TAU == <<710, 113>>

\* lines 169-173, no grid step given: length / surface_height_px
grid_step_of(m, length) == FDiv(length, F64(m.height * m.stack_vertical))

\* f64::round (halves away from zero) and the cast `as u32`, which takes NaN
\* and every negative value to 0.  The values met here stay far below
\* u32::MAX, where the cast would saturate.
round_as_u32(x) ==
    IF IsNaN(x) \/ x[1] <= 0 THEN 0 ELSE (2 * x[1] + x[2]) \div (2 * x[2])

\* lines 195 and 207: (TAU * pin_diameter / grid_step).round() as u32
inner_circle_points(inner_diameter, grid_step) ==
    round_as_u32(FDiv(FMul(TAU, inner_diameter), grid_step))

\* lines 182-211: the end of the roller, or the error of its checks.
roller_end_of(m, diameter, relief_depth, grid_step) ==
    IF Given(m, "pin_diameter")
      THEN IF ~FGt(m.pin_length, F64(0))
             THEN Invalid("Pin length should be greater than zero")
           ELSE IF ~InnerFitsBody(diameter, relief_depth, m.pin_diameter)
             THEN Invalid("Pin diameter is too big")
           ELSE Ok([kind |-> "Pin", pin_diameter |-> m.pin_diameter,
                    pin_length |-> m.pin_length,
                    circle_points |-> inner_circle_points(m.pin_diameter, grid_step)])
    ELSE IF Given(m, "channel_diameter")
      THEN IF ~InnerFitsBody(diameter, relief_depth, m.channel_diameter)
             THEN Invalid("Channel diameter is too big")
             ELSE Ok([kind |-> "Channel", channel_diameter |-> m.channel_diameter,
                      circle_points |->
                          inner_circle_points(m.channel_diameter, grid_step)])
    ELSE Ok([kind |-> "Flat"])

\* The checks of lines 144-211 on the dimensions dims and the relief depth.
validated(m, dims, relief_depth, roller_end) ==
    IF ~(FGt(dims.diameter, F64(0)) /\ FGt(dims.length, F64(0)))
      THEN Invalid("All roller dimensions should be greater than zero")
    ELSE IF ~FGt(relief_depth, F64(0))
      THEN Invalid("Relief depth should be greater than zero")
    ELSE IF ~FGt(dims.diameter, FMul(F64(2), relief_depth))
      THEN Invalid("Relief depth should be less than radius")
    ELSE IF roller_end.kind # "Ok"
      THEN roller_end
    ELSE Ok([roller_diameter |-> dims.diameter, roller_length |-> dims.length,
             relief_depth |-> relief_depth, roller_end |-> roller_end.val,
             stack_horizontal |-> m.stack_horizontal,
             stack_vertical |-> m.stack_vertical])

parse_with(m, dims, relief_depth) ==
    validated(m, dims, relief_depth,
              roller_end_of(m, dims.diameter, relief_depth,
                            grid_step_of(m, dims.length)))

parse_dims(m, dims) == parse_with(m, dims, relief_depth_of(m, dims.diameter))

parse_macthes(m) == parse_dims(m, roller_dimensions(m))

(***************************************************************************)
(* SpecParse: parse_macthes on the command lines clap lets through (one of *)
(* diameter and length; pin diameter and pin length together, or a channel *)
(* diameter, or neither) with values from -1 to MaxLength and NaN.         *)
(***************************************************************************)
MaxLength == 3

ParseValues == {NaN} \cup {F64(k) : k \in -1..MaxLength}

Matches(given, w, h, sh, sv, size, relief, inner, pin_length) ==
    [given |-> given, width |-> w, height |-> h,
     stack_horizontal |-> sh, stack_vertical |-> sv,
     roller_diameter |-> size, roller_length |-> size, relief_depth |-> relief,
     pin_diameter |-> inner, channel_diameter |-> inner, pin_length |-> pin_length]

\* The sets of options the groups of cli_command allow.
OptionSets ==
    {dims \cup relief \cup ends :
        dims \in {{"roller_diameter"}, {"roller_length"}},
        relief \in {{}, {"relief_depth"}},
        ends \in {{}, {"pin_diameter", "pin_length"}, {"channel_diameter"}}}

\* An option that is not given has no value: it is set to 0 here.
ValuesFor(given, option) ==
    IF option \in given THEN ParseValues ELSE {F64(0)}

InnerValues(given) ==
    IF given \cap {"pin_diameter", "channel_diameter"} # {}
      THEN ParseValues ELSE {F64(0)}

InitParse ==
    /\ params = FaceParams
    /\ build = "release"
    /\ RunIdle
    /\ \E given \in OptionSets, w \in 1..MaxDim, h \in 1..MaxDim,
          stack \in {<<1, 1>>, <<MaxStack, 1>>, <<1, MaxStack>>}, size \in ParseValues :
       \E relief \in ValuesFor(given, "relief_depth"),
          inner \in InnerValues(given),
          pin_length \in ValuesFor(given, "pin_length") :
          call = [fn |-> "parse_macthes",
                  matches |-> Matches(given, w, h, stack[1], stack[2], size, relief,
                                      inner, pin_length)]
    /\ out = None

CallParse ==
    /\ call.fn = "parse_macthes"
    /\ out = None
    /\ out' = parse_macthes(call.matches)
    /\ UNCHANGED <<params, build, call, RunVars>>

NextParse == CallParse

SpecParse == InitParse /\ [][NextParse]_vars

(***************************************************************************)
(* Claims about parse_macthes (SpecParse).                                  *)
(***************************************************************************)
\* The dimensions of the roller asked for: the one given and the one that
\* follows from the aspect ratio of the stacked image.
AskedDiameter ==
    IF Given(call.matches, "roller_diameter")
      THEN call.matches.roller_diameter
      ELSE FDiv(FMul(call.matches.roller_length,
                     <<call.matches.width * call.matches.stack_horizontal,
                       call.matches.height * call.matches.stack_vertical>>), PI)

AskedLength ==
    IF Given(call.matches, "roller_length")
      THEN call.matches.roller_length
      ELSE FDiv(FMul(PI, call.matches.roller_diameter),
                <<call.matches.width * call.matches.stack_horizontal,
                  call.matches.height * call.matches.stack_vertical>>)

AskedRelief ==
    IF Given(call.matches, "relief_depth")
      THEN call.matches.relief_depth ELSE FMul(<<2, 100>>, AskedDiameter)

\* a < b as the claim words it
Less(a, b) == ~IsNaN(a) /\ ~IsNaN(b) /\ a[1] * b[2] < b[1] * a[2]

Same(a, b) == ~IsNaN(a) /\ ~IsNaN(b) /\ a[1] * b[2] = b[1] * a[2]

BodyInside == FSub(AskedDiameter, FMul(F64(2), AskedRelief))

DimensionsAreValid ==
    /\ Less(F64(0), AskedDiameter)
    /\ Less(F64(0), AskedLength)
    /\ Less(F64(0), AskedRelief)
    /\ Less(AskedRelief, FDiv(AskedDiameter, F64(2)))
    /\ Given(call.matches, "pin_diameter") =>
          /\ Less(F64(0), call.matches.pin_length)
          /\ Less(call.matches.pin_diameter, BodyInside)
    /\ Given(call.matches, "channel_diameter") =>
          Less(call.matches.channel_diameter, BodyInside)

Emitted(p, j, q) == ~(j = p.image_height - 1 /\ q = p.stack_vertical - 1)

CellsPerColumn(p) ==
    p.image_height * p.stack_horizontal * p.stack_vertical - p.stack_horizontal

CellsBefore(p, c) ==
    (IF c.i = 0 THEN 0 ELSE c.i * CellsPerColumn(p))
      + (IF c.j = 0 THEN 0 ELSE c.j * p.stack_horizontal * p.stack_vertical)
      + c.p * (IF c.j = p.image_height - 1
                 THEN p.stack_vertical - 1 ELSE p.stack_vertical)
      + c.q

BodyTotal(p) ==
    2 * p.image_width * p.stack_horizontal * (p.image_height * p.stack_vertical - 1)

InBody == pc = "generating" /\ gen.part = "body"

BodyLeft ==
    /\ pc = "generating"
    /\ gen.part \in {"lids_solid", "pins", "channel", "finished"}
    /\ written > 0
    /\ last.cursor.part = "body"

\* C18: make_cylinder_patterned writes exactly two triangles for every
\* (col, row, p, q) with col < W, row < H, p < Hs, q < Vs, except those with
\* row = H - 1 and q = Vs - 1, which it skips and which are the only ones it
\* skips: 2 * W * Hs * (H * Vs - 1) body faces in all.
C18_BodyWritesTwoFacesPerCell ==
    /\ InBody =>
          /\ gen.i \in 0..(params.image_width - 1)
          /\ gen.j \in 0..(params.image_height - 1)
          /\ gen.p \in 0..(params.stack_horizontal - 1)
          /\ gen.q \in 0..(params.stack_vertical - 1)
          /\ gen.t \in {1, 2}
          /\ Emitted(params, gen.j, gen.q)
          /\ written = 2 * CellsBefore(params, gen) + gen.t - 1
    /\ BodyLeft =>
          /\ written = BodyTotal(params)
          /\ last.cursor.t = 2
    /\ (pc = "generating" /\ written = 0 /\ gen.part \in {"lids_solid", "pins", "channel"}) =>
          params.image_height * params.stack_vertical = 1

\* The body of a roller stacked both ways has just been left, with the
\* second triangle of its last cell written.
C18_Witness ==
    /\ BodyLeft
    /\ params.image_width > 1
    /\ params.image_height > 1
    /\ params.stack_horizontal > 1
    /\ params.stack_vertical > 1
    /\ written = BodyTotal(params)
    /\ last.cursor.i = params.image_width - 1
    /\ last.cursor.j = params.image_height - 1
    /\ last.cursor.q = params.stack_vertical - 2

(***************************************************************************)
(* SpecOpen: STLFileWriter::new called on Parameters by itself.             *)
(***************************************************************************)
InitOpen ==
    /\ params \in RunParams
    /\ build \in Builds
    /\ RunIdle
    /\ call = [fn |-> "STLFileWriter::new"]
    /\ out = None

\* let filename = params.output_filename.as_str()
EnterNew ==
    /\ call.fn = "STLFileWriter::new"
    /\ pc = "idle"
    /\ pc' = "summarized"
    /\ UNCHANGED <<params, build, call, out, gen, polygon, stl_writer, file,
                   written, last, summary, ret, result>>

NextOpen ==
    \/ EnterNew
    \/ CreateFile
    \/ CreateFileFails
    \/ BuildWriter
    \/ WriteHeader
    \/ WriteNFaces

SpecOpen == InitOpen /\ [][NextOpen]_vars

(***************************************************************************)
(* Claims about STLFileWriter::new (SpecOpen).                              *)
(***************************************************************************)
FacesCountFailed == faces_count(params, build).kind = "Err"

\* C19: STLFileWriter::new validates the face count before it touches the
\* output: when faces_count() fails, the file has been neither created nor
\* truncated and no byte has been written.
C19_CountIsValidatedBeforeTheFileIsTouched ==
    (FacesCountFailed /\ pc # "idle") =>
        /\ ~file.created
        /\ file.len = 0
        /\ stl_writer = None

(***************************************************************************)
(* lls_sse on f64 (split.rs): the operations of the source in the order of *)
(* the source, each one rounded.  lls_sse above is its exact value times   *)
(* 20 on integers.                                                         *)
(***************************************************************************)
f64_0_25 == [neg |-> FALSE, mant |-> <<1>>, exp |-> -2]

f64_1_5 == [neg |-> FALSE, mant |-> <<3>>, exp |-> -1]

f64_2_0 == [neg |-> FALSE, mant |-> <<1>>, exp |-> 1]

f64_3_0 == [neg |-> FALSE, mant |-> <<3>>, exp |-> 0]

\* A slip in the literal: a quarter for a fifth.
f64_0_2_AQuarter == [neg |-> FALSE, mant |-> <<1>>, exp |-> -2]

\* 0.2 is 3602879701896397 / 2^54
f64_0_2 == [neg |-> FALSE, mant |-> <<3277, 13107, 3276, 819>>, exp |-> -54]

y_sum_f64(y1, y2, y3, y4) == f64_add(f64_add(f64_add(y1, y2), y3), y4)

xy_sum_f64(y2, y3, y4) ==
    f64_add(f64_add(y2, f64_mul(f64_2_0, y3)), f64_mul(f64_3_0, y4))

y_squared_sum_f64(y1, y2, y3, y4) ==
    f64_add(f64_add(f64_add(f64_mul(y1, y1), f64_mul(y2, y2)), f64_mul(y3, y3)),
            f64_mul(y4, y4))

ss_yy_f64(y_squared_sum, y_sum) ==
    f64_sub(y_squared_sum, f64_mul(f64_mul(y_sum, y_sum), f64_0_25))

ss_xy_f64(xy_sum, y_sum) == f64_sub(xy_sum, f64_mul(f64_1_5, y_sum))

sse_f64(ss_yy, ss_xy) == f64_sub(ss_yy, f64_mul(f64_mul(ss_xy, ss_xy), f64_0_2))

\* A slip: the sum of squares about the mean, the slope left out.
lls_sse_f64_WithoutSlope(y1, y2, y3, y4) ==
    ss_yy_f64(y_squared_sum_f64(y1, y2, y3, y4), y_sum_f64(y1, y2, y3, y4))

lls_sse_f64(y1, y2, y3, y4) ==
    sse_f64(ss_yy_f64(y_squared_sum_f64(y1, y2, y3, y4), y_sum_f64(y1, y2, y3, y4)),
            ss_xy_f64(xy_sum_f64(y2, y3, y4), y_sum_f64(y1, y2, y3, y4)))

(***************************************************************************)
(* SpecLls: lls_sse is called on y, y + d, y + 2d and a fourth value, and  *)
(* then on the same three with the fourth value moved.  The values are     *)
(* integers around 0, around 2^20, around 2^24 and around 2^26, and the    *)
(* 5.1 of the tests of the source.                                         *)
(***************************************************************************)
MaxTerm == 2

MaxStep == 2

MaxMove == 2

Anchors == {0, Pow2(20), -Pow2(20), Pow2(24), -Pow2(24), Pow2(26), -Pow2(26)}

FirstTerms == {a + k : a \in Anchors, k \in (-MaxTerm)..MaxTerm}

\* 5.1 is 5742089524897382 / 2^50
f64_5_1 == [neg |-> FALSE, mant |-> <<13107, 3276, 13107, 652>>, exp |-> -49]

InitLls ==
    /\ params = FaceParams
    /\ build = "release"
    /\ RunIdle
    /\ \E y \in FirstTerms, d \in (-MaxStep)..MaxStep, e \in (-MaxMove)..MaxMove,
          move \in (-MaxMove)..MaxMove :
         call \in {[fn |-> "lls_sse", y |-> y, d |-> d, e |-> e, move |-> move,
                    y1 |-> f64_from(y), y2 |-> f64_from(y + d),
                    y3 |-> f64_from(y + 2 * d), y4 |-> f64_from(y + 3 * d + e),
                    moved |-> f64_from(y + 3 * d + e + move)],
                   [fn |-> "lls_sse", y |-> 1, d |-> 1, e |-> 1, move |-> 1,
                    y1 |-> f64_from(1), y2 |-> f64_from(2),
                    y3 |-> f64_from(3), y4 |-> f64_from(5), moved |-> f64_5_1]}
    /\ out = None

\* lls_sse(y1, y2, y3, y4)
CallLls ==
    /\ call.fn = "lls_sse"
    /\ out = None
    /\ out' = [sse |-> lls_sse_f64(call.y1, call.y2, call.y3, call.y4), moved |-> None]
    /\ UNCHANGED <<params, build, call, RunVars>>

\* lls_sse(y1, y2, y3, moved)
CallLlsMoved ==
    /\ call.fn = "lls_sse"
    /\ out # None
    /\ out.moved = None
    /\ out' = [out EXCEPT !.moved = lls_sse_f64(call.y1, call.y2, call.y3, call.moved)]
    /\ UNCHANGED <<params, build, call, RunVars>>

NextLls == CallLls \/ CallLlsMoved

SpecLls == InitLls /\ [][NextLls]_vars

(***************************************************************************)
(* Claims about lls_sse (SpecLls).                                         *)
(***************************************************************************)
\* The four values are an arithmetic progression: the fourth continues the
\* line of the first three.
Progression == call.e = 0

\* Every value given to lls_sse is an integer of magnitude at most bound.
Within(bound) ==
    /\ call.moved # f64_5_1
    /\ \A k \in 0..2 : Abs(call.y + k * call.d) <= bound
    /\ Abs(call.y + 3 * call.d + call.e) <= bound
    /\ Abs(call.y + 3 * call.d + call.e + call.move) <= bound

\* C15 as stated: lls_sse(y, y+d, y+2d, y+3d) is exactly 0 for every
\* arithmetic progression, the constant ones (d = 0) included.
C15_EveryProgressionScoresZero ==
    (out # None /\ Progression) => out.sse = f64_zero

\* C15: lls_sse(y, y+d, y+2d, y+3d) is exactly 0 for every arithmetic
\* progression of integers of magnitude at most 2^24, the constant ones
\* (d = 0) included, e.g. (1,2,3,4), (2,4,6,8) and (1,1,1,1).
C15_ExactProgressionScoresZero ==
    (out # None /\ Progression /\ Within(Pow2(24))) => out.sse = f64_zero

C15_Witness ==
    /\ out # None
    /\ Progression
    /\ call.y = Pow2(24) - 2
    /\ call.d = 1
    /\ call.move = 0
    /\ out.sse = f64_zero

\* The moved fourth value is further from the line of the first three than
\* the fourth value is, on the same side of it.
MovedAway ==
    \/ call.e >= 0 /\ call.move > 0
    \/ call.e <= 0 /\ call.move < 0

\* C16 as stated: with the first three values in arithmetic progression,
\* moving the fourth value further away from the linear continuation
\* strictly increases lls_sse.
C16_FurtherFromTheLineScoresMore ==
    (out # None /\ out.moved # None /\ MovedAway) => f64_lt(out.sse, out.moved)

\* C16: with the first three values in arithmetic progression and all the
\* values integers of magnitude at most 2^20, moving the fourth value further
\* away from the linear continuation strictly increases lls_sse; and
\* lls_sse(1,2,3,5) < lls_sse(1,2,3,5.1).
C16_FurtherFromTheLineScoresMoreWhenExact ==
    (out # None /\ out.moved # None /\ MovedAway
       /\ (Within(Pow2(20)) \/ call.moved = f64_5_1))
      => f64_lt(out.sse, out.moved)

C16_Witness ==
    /\ out # None
    /\ out.moved # None
    /\ call.moved = f64_5_1
    /\ f64_lt(out.sse, out.moved)

(***************************************************************************)
(* SpecAnnulus: the loop of make_lids_holed over the segments of the inner *)
(* ring, for a big circle of call.big points and a small one of call.small *)
(* points.  out carries i, n_start and n_end of the loop, the top polygon  *)
(* of the segment, and for every edge n -> n + 1 of the big ring the       *)
(* number of top polygons it lies in.                                      *)
(***************************************************************************)
MaxOuter == 16

InitAnnulus ==
    /\ params = FaceParams
    /\ build = "release"
    /\ RunIdle
    /\ \E big \in 1..MaxOuter :
         \E small \in {n \in 1..(2 * big + 3) : InnerFits(big, 1, Pin(n))} :
           call = [fn |-> "make_lids_holed", big |-> big, small |-> small]
    /\ out = None

\* lines 214-215: let mut n_start: usize; let mut n_end: usize = 0;
EnterLids ==
    /\ call.fn = "make_lids_holed"
    /\ out = None
    /\ out' = [i |-> 0, n_start |-> None, n_end |-> 0, polygon |-> <<>>,
               edges |-> [n \in 0..(call.big - 1) |-> 0], returned |-> FALSE]
    /\ UNCHANGED <<params, build, call, RunVars>>

SegmentOf(i, n_start, n_end) ==
    [part |-> "lids_holed", i |-> i, side |-> "top", n_start |-> n_start,
     n_end |-> n_end]

LidsSegment(i, n_start, n_end) ==
    [i |-> i, n_start |-> n_start, n_end |-> n_end,
     polygon |-> SegmentPolygon(SegmentOf(i, n_start, n_end)),
     edges |-> [n \in 0..(call.big - 1) |->
                  IF n_start <= n /\ n < n_end THEN out.edges[n] + 1
                  ELSE out.edges[n]],
     returned |-> FALSE]

\* lines 216-246: one turn of the loop for i in 1..=small_circle.n_points
NextSegment ==
    /\ call.fn = "make_lids_holed"
    /\ out # None
    /\ ~out.returned
    /\ out.i < call.small
    /\ out' = LidsSegment(out.i + 1, out.n_end,
                          AnnulusEnd(out.i + 1, call.big, call.small))
    /\ UNCHANGED <<params, build, call, RunVars>>

\* line 247: Ok(())
LeaveLids ==
    /\ call.fn = "make_lids_holed"
    /\ out # None
    /\ ~out.returned
    /\ out.i = call.small
    /\ out' = [out EXCEPT !.returned = TRUE]
    /\ UNCHANGED <<params, build, call, RunVars>>

NextAnnulus == EnterLids \/ NextSegment \/ LeaveLids

SpecAnnulus == InitAnnulus /\ [][NextAnnulus]_vars

(***************************************************************************)
(* Claims about make_lids_holed (SpecAnnulus).                             *)
(***************************************************************************)
InSegment == out # None /\ out.i >= 1

\* The ranges begin at 0, end at the point count of the big ring, are in
\* order, and the polygon of a range has its points and the two inner ones.
RangesCover ==
    InSegment =>
      /\ out.i = 1 => out.n_start = 0
      /\ out.i = call.small => out.n_end = call.big
      /\ out.n_start <= out.n_end
      /\ Len(out.polygon) = out.n_end - out.n_start + 3
      /\ Len(out.polygon) >= 3
      /\ out.returned => \A n \in 0..(call.big - 1) : out.edges[n] = 1

\* Each range starts where the one before it ended.
RangesMeet == (out # None /\ out' # None /\ out'.i = out.i + 1) => out'.n_start = out.n_end

\* i * big / small rounded to the nearest integer, a half away from zero
QuotientRounded(i, big, small) == (2 * i * big + small) \div (2 * small)

\* C20 as stated: the ranges cover the big ring as above, and before the last
\* segment n_end is i * outerCount / innerCount rounded.
C20_EndIsTheQuotientRounded ==
    /\ [](RangesCover
          /\ ((InSegment /\ out.i < call.small)
                => out.n_end = QuotientRounded(out.i, call.big, call.small)))
    /\ [][RangesMeet]_vars

\* C20: in make_lids_holed the ranges [n_start, n_end] of the segments
\* i = 1..innerCount begin at 0, end exactly at outerCount, satisfy
\* n_start <= n_end and are contiguous (each n_start is the previous n_end),
\* so every outer-ring edge lies in exactly one polygon and each polygon has
\* n_end - n_start + 3 >= 3 vertices, also for innerCount > outerCount; for
\* i < innerCount n_end is an integer nearest to i * outerCount / innerCount,
\* and where that is an exact half it can be the lower one.
C20_RangesCoverTheOuterRing ==
    /\ [](RangesCover
          /\ ((InSegment /\ out.i < call.small)
                => Abs(2 * call.small * out.n_end - 2 * out.i * call.big) <= call.small))
    /\ [][RangesMeet]_vars

C20_Witness ==
    /\ out # None
    /\ call.big = 15
    /\ call.small = 22
    /\ out.i = 11
    /\ out.n_start = 7
    /\ out.n_end = 7
    /\ Len(out.polygon) = 3

(***************************************************************************)
(* Claims about the grid lookups of split_quad_optimal (SpecSplit).        *)
(***************************************************************************)
Rows == 0..(params.image_height - 1)

\* C21: the radius-grid lookups of the diagonal selector and the body mesher
\* wrap only in the column direction (period W); a row index is never
\* wrapped: no lookup of a row outside 0..H-1 (rows -1, H and H+1) is
\* resolved to a row of the grid (rows H-1, 0 and 1).
C21_RowsAreNeverWrapped ==
    out # None =>
      \A k \in 1..Len(out.lookups) :
         /\ out.lookups[k].i = out.lookups[k].i_raw % params.image_width
         /\ out.lookups[k].j_raw \notin Rows => out.lookups[k].j \notin Rows

(***************************************************************************)
(* SpecWall: make_channel and make_pins on an inner circle of four points. *)
(* The (sin, cos) pairs of a quarter turn are those of the lattice (the    *)
(* f64 pairs differ from them by less than 2^-52), so that the points,     *)
(* the chords and the normals of the faces are integers.                   *)
(***************************************************************************)
\* sin_cos_table of CircleConverter::new(4, axis_shift): the pairs of
\* 0, 1/4, 1/2 and 3/4 of a turn, and the first one again
QuarterTable == <<<<0, 1>>, <<1, 0>>, <<0, -1>>, <<-1, 0>>, <<0, 1>>>>

\* CircleConverter::get_vector3 on that table
get_vector3(axis_shift, n, rho, z) ==
    Vector3(rho * QuarterTable[n + 1][2] + axis_shift,
            rho * QuarterTable[n + 1][1] + axis_shift, z)

\* make_channel, lines 145-151: the two faces of turn i
ChannelFaces(c, i) ==
    LET z_max == c.roller_length
        top_point_old == get_vector3(c.axis_shift, i - 1, c.radius, z_max)
        bot_point_old == get_vector3(c.axis_shift, i - 1, c.radius, 0)
        top_point_new == get_vector3(c.axis_shift, i, c.radius, z_max)
        bot_point_new == get_vector3(c.axis_shift, i, c.radius, 0)
        normal == xy_perp_clockwise(from_points(top_point_old, top_point_new))
    IN  <<[n |-> normal, a |-> top_point_old, b |-> top_point_new, c |-> bot_point_old],
          [n |-> normal, a |-> bot_point_old, b |-> top_point_new, c |-> bot_point_new]>>

\* make_pins, lines 170-191: the six faces of turn i
PinFaces(c, i) ==
    LET z_max == c.roller_length + 2 * c.pin_length
        top_center == Vector3(c.axis_shift, c.axis_shift, z_max)
        bot_center == Vector3(c.axis_shift, c.axis_shift, 0)
        top_point_1 == get_vector3(c.axis_shift, i - 1, c.radius, z_max)
        top_point_2 == get_vector3(c.axis_shift, i, c.radius, z_max)
        top_point_3 == get_vector3(c.axis_shift, i - 1, c.radius, z_max - c.pin_length)
        top_point_4 == get_vector3(c.axis_shift, i, c.radius, z_max - c.pin_length)
        top_normal == xy_perp_clockwise(from_points(top_point_2, top_point_1))
        bot_point_1 == get_vector3(c.axis_shift, i - 1, c.radius, 0)
        bot_point_2 == get_vector3(c.axis_shift, i, c.radius, 0)
        bot_point_3 == get_vector3(c.axis_shift, i - 1, c.radius, c.pin_length)
        bot_point_4 == get_vector3(c.axis_shift, i, c.radius, c.pin_length)
        bot_normal == xy_perp_clockwise(from_points(bot_point_2, bot_point_1))
    IN  <<[n |-> UP, a |-> top_point_1, b |-> top_point_2, c |-> top_center],
          [n |-> top_normal, a |-> top_point_3, b |-> top_point_2, c |-> top_point_1],
          [n |-> top_normal, a |-> top_point_2, b |-> top_point_3, c |-> top_point_4],
          [n |-> DOWN, a |-> bot_center, b |-> bot_point_2, c |-> bot_point_1],
          [n |-> bot_normal, a |-> bot_point_1, b |-> bot_point_2, c |-> bot_point_3],
          [n |-> bot_normal, a |-> bot_point_4, b |-> bot_point_3, c |-> bot_point_2]>>

InitWall ==
    /\ params = FaceParams
    /\ build = "release"
    /\ RunIdle
    /\ call \in {[fn |-> fn, n_points |-> Len(QuarterTable) - 1, radius |-> radius,
                   axis_shift |-> axis_shift, roller_length |-> roller_length,
                   pin_length |-> pin_length] :
                    fn \in {"make_channel", "make_pins"}, radius \in 1..MaxRadius,
                    axis_shift \in 0..MaxShift, roller_length \in 1..MaxLength,
                    pin_length \in 1..MaxLength}
    /\ out = None

\* out after face t of turn i, of faces the faces of the turn
WallFace(faces, i, t) ==
    IF t <= Len(faces) THEN [i |-> i, t |-> t, face |-> faces[t]]
    ELSE [i |-> i + 1, t |-> 0, face |-> None]

\* make_channel: the next write_face of the loop for i in 1..=circle.n_points
ChannelFace ==
    /\ call.fn = "make_channel"
    /\ out # None => out.i <= call.n_points
    /\ out' = IF out = None THEN WallFace(ChannelFaces(call, 1), 1, 1)
              ELSE WallFace(ChannelFaces(call, out.i), out.i, out.t + 1)
    /\ UNCHANGED <<params, build, call, RunVars>>

\* make_pins: the next write_face of the loop for i in 1..=circle.n_points
PinFace ==
    /\ call.fn = "make_pins"
    /\ out # None => out.i <= call.n_points
    /\ out' = IF out = None THEN WallFace(PinFaces(call, 1), 1, 1)
              ELSE WallFace(PinFaces(call, out.i), out.i, out.t + 1)
    /\ UNCHANGED <<params, build, call, RunVars>>

NextWall == ChannelFace \/ PinFace

SpecWall == InitWall /\ [][NextWall]_vars

(***************************************************************************)
(* Claims about the faces of make_channel and make_pins (SpecWall).        *)
(***************************************************************************)
\* C22: every face handed to the sink carries a unit-length normal, the pin
\* and channel side walls included: the squares of the components of the
\* normal add up to 1.
C22_EveryNormalHasUnitLength ==
    (out # None /\ out.face # None) =>
        out.face.n.x * out.face.n.x + out.face.n.y * out.face.n.y
            + out.face.n.z * out.face.n.z = 1

(***************************************************************************)
(* Claims about a scan that finds no ear (SpecEarFair).                    *)
(***************************************************************************)
NoEarLeft == pc = "trimming" /\ Len(polygon) >= 3 /\ EarIndices(polygon) = {}

Aborted == pc = "returned" /\ out.res.kind = "Panic"

\* C23: if a scan of fill_polygon_by_ear_trimming finds no ear while at
\* least 3 vertices remain, the run is aborted as a fatal failure at once:
\* the next step is the panic, no further face is written, nothing follows
\* the return, Ok is not returned, and the loop does not go on forever.
C23_NoEarIsFatalAtOnce ==
    /\ [][NoEarLeft => (Aborted' /\ written' = written /\ file' = file
                          /\ out'.faces = out.faces)]_EarVars
    /\ [][pc # "returned"]_EarVars
    /\ (NoEarLeft ~> Aborted)

C23_Witness == Aborted /\ Len(polygon) >= 3 /\ EarIndices(polygon) = {} /\ written >= 1

(***************************************************************************)
(* Claims about the remaining-face counter of the debug build (Spec).      *)
(***************************************************************************)
\* The sink exists and counts: a debug build from STLFileWriter::new on.
Counting == build = "debug" /\ stl_writer.kind = "STLFileWriter"

\* The count the header declares.
Expected == ToNat(faces_count(params, build).val)

Remaining == ToNat(stl_writer.faces_count)

\* The counter and the file against the declared count.
CounterTracks(expected, remaining) ==
    /\ pc = "generating" => written + remaining = expected
    /\ pc # "generating" => written + remaining \in {expected - 1, expected}
    /\ written + remaining = expected - 1 => ret = Err("io", <<>>)
    /\ remaining = 0 =>
          write_face(stl_writer, file, build, "ok", TRUE).res = Panic("overflow")
    /\ written < expected =>
          file.len < HEADER_SIZE + COUNT_SIZE + FACE_SIZE * expected

LexLess(a, b) ==
    \E k \in 1..Len(a) : a[k] < b[k] /\ \A m \in 1..(k - 1) : a[m] = b[m]

\* A face is written after an earlier one.
NextFaceWritten == written >= 1 /\ written' = written + 1

\* A cell follows another in an order that has `outer` as its slower index.
CellsInOrder(a, b, outer) ==
    IF outer = "column"
      THEN LexLess(<<a.i, a.j, a.p, a.q, a.t>>, <<b.i, b.j, b.p, b.q, b.t>>)
      ELSE LexLess(<<a.j, a.i, a.p, a.q, a.t>>, <<b.j, b.i, b.p, b.q, b.t>>)

\* Two faces written one after the other, a then b, keep the order: no body
\* face after an end face; within the body the cells go with `outer` as the
\* slower index, within a cell the horizontal repeats, within those the
\* vertical repeats; the second triangle of a quad follows the first.
StreamedInOrder(a, b, outer) ==
    /\ a.part # "body" => b.part # "body"
    /\ (a.part = "body" /\ b.part = "body") =>
          /\ CellsInOrder(a, b, outer)
          /\ a.t = 1 => b = [a EXCEPT !.t = 2]
    /\ (a.part = "body" /\ b.part # "body") => a.t = 2

\* C25 as stated: body before ends, the body row by row (columns within a
\* row), the stack repeats and the two triangles of a quad consecutive.
C25_BodyIsStreamedRowByRow ==
    [][NextFaceWritten => StreamedInOrder(last.cursor, last'.cursor, "row")]_vars

\* C25, amended: body before ends, the body column by column (rows within a
\* column), the stack repeats and the two triangles of a quad consecutive.
C25_BodyIsStreamedColumnByColumn ==
    [][NextFaceWritten => StreamedInOrder(last.cursor, last'.cursor, "column")]_vars

\* The first face of the second column has been written after a face of the
\* second row, and the run has gone on to the ends.
C25_Witness ==
    /\ written >= 1
    /\ last.cursor.part # "body"
    /\ params.image_width >= 2
    /\ params.image_height >= 2
    /\ params.stack_vertical >= 2

(***************************************************************************)
(* Claims about the indices handed to the samplers (Spec).                 *)
(***************************************************************************)
\* The largest index the mesher at cursor c hands to get_xy or get_vector3,
\* and the n_points of the sampler it is handed to.
LargestLookup(p, c) ==
    CASE c.part = "body" -> c.i + c.p * p.image_width + 1
      [] c.part = "lids_holed" -> c.n_end
      [] c.part \in {"lids_solid", "pins", "channel"} -> c.i

SamplerPoints(p, b, c) ==
    IF c.part \in {"pins", "channel"} THEN p.roller_end.circle_points
    ELSE n_points(p, b)

\* C26: every sampler lookup of a generation pass uses an index within
\* 0..=n_points of its sampler: no mesher stops on an index out of bounds,
\* and the lookups of the face at the cursor are inside the table.
C26_EveryLookupIsInsideItsTable ==
    pc = "generating" =>
        /\ gen.part # "panic"
        /\ gen.part \in {"body", "lids_holed", "lids_solid", "pins", "channel"} =>
              LargestLookup(params, gen) <= SamplerPoints(params, build, gen)

(***************************************************************************)
(* SpecRing: the rings along which the body and the ends meet.  A vertex   *)
(* is known by the sampler index n it is taken at, the column and row of   *)
(* the radius it is given, and its z as a binary64 number.  Lengths are    *)
(* whole numbers up to MaxLength.                                          *)
(***************************************************************************)
\* make_cylinder_patterned, lines 68-72
body_z_max(p, c) ==
    IF p.roller_end.kind = "Pin"
      THEN f64_add(f64_from(c.roller_length), f64_from(c.pin_length))
      ELSE f64_from(c.roller_length)

\* make_cylinder_patterned, lines 73-74
body_z_step(p, c) ==
    f64_div(f64_from(c.roller_length),
            f64_from(p.image_height * p.stack_vertical - 1))

\* z_t of line 87
body_z_t(p, c, j, q) ==
    f64_sub(body_z_max(p, c),
            f64_mul(f64_from(j + p.image_height * q), body_z_step(p, c)))

RingVertex(n, at, z) == [n |-> n, col |-> at.i, row |-> at.j, z |-> z]

\* The four points of quad (i, j, p, q), lines 77-92: the radii are quad_tl,
\* quad_tr, quad_bl, quad_br of split_quad_optimal.
BodyCorners(p, i, j, pp, q, z_t, z_b) ==
    [tl |-> RingVertex(i + pp * p.image_width, looped_index(p, i, j), z_t),
     tr |-> RingVertex(i + pp * p.image_width + 1, looped_index(p, i + 1, j), z_t),
     bl |-> RingVertex(i + pp * p.image_width, looped_index(p, i, j + 1), z_b),
     br |-> RingVertex(i + pp * p.image_width + 1, looped_index(p, i + 1, j + 1), z_b)]

\* z_shift of make_lids_holed as make_pattern_roller passes it
lids_z_shift(p, c) ==
    IF p.roller_end.kind = "Pin" THEN f64_from(c.pin_length) ELSE f64_zero

\* The vertex of the end's outer ring at sampler index n: make_lids_solid,
\* lines 112-125, for a Flat end, make_lids_holed, lines 204-207 and 230,
\* 241, for the others.  The top line is row 0, the bottom line the last.
OuterVertex(p, c, n, side) ==
    RingVertex(n,
               [i |-> n % p.image_width,
                j |-> IF side = "top" THEN 0 ELSE p.image_height - 1],
               CASE p.roller_end.kind = "Flat" /\ side = "top" ->
                       f64_from(c.roller_length)
                 [] p.roller_end.kind = "Flat" /\ side = "bot" -> f64_zero
                 [] p.roller_end.kind # "Flat" /\ side = "top" ->
                       f64_add(lids_z_shift(p, c), f64_from(c.roller_length))
                 [] p.roller_end.kind # "Flat" /\ side = "bot" ->
                       lids_z_shift(p, c))

\* make_pins, lines 163-165: the z of the two pin tips
PinTips(c) ==
    [top |-> f64_add(f64_from(c.roller_length),
                     f64_mul(f64_2_0, f64_from(c.pin_length))),
     bot |-> f64_zero]

InitRing ==
    /\ \E w \in 1..MaxDim, h \in 1..MaxDim, sh \in 1..MaxStack, sv \in 1..MaxStack,
          e \in EndSpecs({3}) :
          params = Parameters(w, h, sh, sv, e, Radii("ramp", <<>>))
    /\ build = "release"
    /\ RunIdle
    /\ \E roller_length \in 1..MaxLength, pin_length \in 0..MaxLength :
          /\ pin_length = 0 <=> params.roller_end.kind # "Pin"
          /\ call = [fn |-> "make_pattern_roller", roller_length |-> roller_length,
                     pin_length |-> pin_length]
    /\ out = None

\* One pass of the loop over q of make_cylinder_patterned that is not skipped.
BodyQuad ==
    /\ \E i \in 0..(params.image_width - 1), j \in 0..(params.image_height - 1),
          pp \in 0..(params.stack_horizontal - 1), q \in 0..(params.stack_vertical - 1) :
          /\ ~BodySkip(params, j, q)
          /\ LET z_t == body_z_t(params, call, j, q)
                 z_b == f64_sub(z_t, body_z_step(params, call))
             IN  out' = [kind |-> "make_cylinder_patterned", j |-> j, q |-> q,
                         corners |-> BodyCorners(params, i, j, pp, q, z_t, z_b)]
    /\ UNCHANGED <<params, build, call, RunVars>>

\* One outer index n of the end mesher: its top and its bottom vertex.
EndRing ==
    /\ \E n \in 0..(params.image_width * params.stack_horizontal) :
          out' = [kind |-> "make_lids", n |-> n,
                  top |-> OuterVertex(params, call, n, "top"),
                  bot |-> OuterVertex(params, call, n, "bot"),
                  tips |-> PinTips(call)]
    /\ UNCHANGED <<params, build, call, RunVars>>

NextRing == BodyQuad \/ EndRing

SpecRing == InitRing /\ [][NextRing]_vars

(***************************************************************************)
(* Claims about the rings where body and ends meet (SpecRing).             *)
(***************************************************************************)
\* The quad lies in the first row of the body.
OnTopRing == out.j + params.image_height * out.q = 0

\* The quad lies in the last row of the body that is written.
OnBottomRing ==
    out.j + params.image_height * out.q
      = params.image_height * params.stack_vertical - 2

\* C27: for every end variant the vertices of the body's first and last ring
\* are the vertices of the end's outer ring at the same sampler index: the
\* same radius (top row or bottom row, column n mod W) and the same z, which
\* is length and 0 for Flat and Channel, length + pin_length and pin_length
\* for Pin, with the pin tips at length + 2 * pin_length and 0.
C27_EndsMeetTheBodyRings ==
    /\ out.kind = "make_cylinder_patterned" =>
          /\ OnTopRing =>
                /\ out.corners.tl = OuterVertex(params, call, out.corners.tl.n, "top")
                /\ out.corners.tr = OuterVertex(params, call, out.corners.tr.n, "top")
          /\ OnBottomRing =>
                /\ out.corners.bl = OuterVertex(params, call, out.corners.bl.n, "bot")
                /\ out.corners.br = OuterVertex(params, call, out.corners.br.n, "bot")
    /\ out.kind = "make_lids" =>
          /\ out.top.z = f64_from(call.roller_length + call.pin_length)
          /\ out.bot.z = f64_from(call.pin_length)
          /\ out.tips.top = f64_from(call.roller_length + 2 * call.pin_length)
          /\ out.tips.bot = f64_zero

(***************************************************************************)
(* Claims about a write that fails in the debug build (Spec).              *)
(***************************************************************************)
\* The pass has ended on a failed write and the sink has been dropped.
WriteFailed == pc = "done" /\ ret.kind = "Err" /\ written < FaceCap

\* C28: in a debug build, when a write fails partway through a generation
\* pass the failure reaches the caller as the error value: dropping the
\* sink, whose counter is still non-zero, does not turn it into a panic.
C28_WriteErrorReachesTheCaller ==
    (build = "debug" /\ WriteFailed) => result = ret

(***************************************************************************)
(* Claims about the resolution of the inner ring (SpecParse).              *)
(***************************************************************************)
\* parse_macthes has accepted a command line that asks for a pin or a channel.
InnerEndAccepted ==
    /\ out # None
    /\ out.kind = "Ok"
    /\ out.val.roller_end.kind \in {"Pin", "Channel"}

\* C29: whenever parse_macthes accepts a Pin or Channel end, the
\* circle_points it stores is at least 3, also for a zero or negative
\* diameter argument.
C29_AcceptedInnerRingHasThreePoints ==
    InnerEndAccepted => out.val.roller_end.circle_points >= 3

(***************************************************************************)
(* SpecRescale: rescale_min_max (image.rs) on every vector of up to        *)
(* MaxPixels pixels with values up to MaxPixel, both settings of inverted, *)
(* and whole bounds 0 < new_min < new_max <= MaxRadius + 1, in binary64.   *)
(***************************************************************************)
MaxPixels == 3

MaxPixel == 3

U16_MAX == 65535

f64_0_5 == [neg |-> FALSE, mant |-> <<1>>, exp |-> -1]

\* lines 54-59: the loop over the points, from std::u16::MIN
RECURSIVE global_max(_)
global_max(input_vector) ==
    IF input_vector = <<>> THEN 0
    ELSE IF Head(input_vector) > global_max(Tail(input_vector))
      THEN Head(input_vector)
    ELSE global_max(Tail(input_vector))

\* lines 54-59: the loop over the points, from std::u16::MAX
RECURSIVE gloabl_min(_)
gloabl_min(input_vector) ==
    IF input_vector = <<>> THEN U16_MAX
    ELSE IF Head(input_vector) < gloabl_min(Tail(input_vector))
      THEN Head(input_vector)
    ELSE gloabl_min(Tail(input_vector))

\* line 64, with lo and hi the extremes after the swap of lines 61-63
rescale_scale(lo, hi, new_min, new_max) ==
    f64_div(f64_sub(new_max, new_min), f64_sub(f64_from(hi), f64_from(lo)))

\* lines 65-68
rescaled(input_vector, lo, new_min, scale) ==
    [k \in 1..Len(input_vector) |->
        f64_add(new_min,
                f64_mul(f64_sub(f64_from(input_vector[k]), f64_from(lo)), scale))]

\* lines 60-73, on the extremes found
rescale_between(input_vector, inverted, new_min, new_max, lowest, highest) ==
    IF lowest # highest
      THEN IF inverted
             THEN rescaled(input_vector, highest, new_min,
                           rescale_scale(highest, lowest, new_min, new_max))
             ELSE rescaled(input_vector, lowest, new_min,
                           rescale_scale(lowest, highest, new_min, new_max))
      ELSE [k \in 1..Len(input_vector) |-> f64_0_5]

rescale_min_max(input_vector, inverted, new_min, new_max) ==
    rescale_between(input_vector, inverted, new_min, new_max,
                    gloabl_min(input_vector), global_max(input_vector))

InitRescale ==
    /\ params = FaceParams
    /\ build = "release"
    /\ RunIdle
    /\ \E len \in 1..MaxPixels, inverted \in BOOLEAN,
          new_min \in 1..MaxRadius, new_max \in 2..(MaxRadius + 1) :
       \E input_vector \in [1..len -> 0..MaxPixel] :
          /\ new_min < new_max
          /\ call = [fn |-> "rescale_min_max", input_vector |-> input_vector,
                     inverted |-> inverted, new_min |-> new_min, new_max |-> new_max]
    /\ out = None

CallRescale ==
    /\ call.fn = "rescale_min_max"
    /\ out = None
    /\ out' = [kind |-> "radii",
               vals |-> rescale_min_max(call.input_vector, call.inverted,
                                        f64_from(call.new_min), f64_from(call.new_max))]
    /\ UNCHANGED <<params, build, call, RunVars>>

NextRescale == CallRescale

SpecRescale == InitRescale /\ [][NextRescale]_vars

(***************************************************************************)
(* Claims about the radii of the grid (SpecRescale).                       *)
(***************************************************************************)
f64_le(x, y) == ~f64_lt(y, x)

Darkest == gloabl_min(call.input_vector)

Brightest == global_max(call.input_vector)

\* C30: for every pixel vector and both settings of inverted, every radius
\* returned lies within [new_min, new_max], also when all pixels have the
\* same value; if they have not, the darkest and the brightest pixels map
\* to the two bounds, swapped when inverted.
C30_RadiiLieBetweenTheBounds ==
    out.kind = "radii" =>
        \A k \in 1..Len(call.input_vector) :
            /\ f64_le(f64_from(call.new_min), out.vals[k])
            /\ f64_le(out.vals[k], f64_from(call.new_max))
            /\ (Darkest # Brightest /\ call.input_vector[k] = Darkest) =>
                  out.vals[k] = f64_from(IF call.inverted THEN call.new_max
                                         ELSE call.new_min)
            /\ (Darkest # Brightest /\ call.input_vector[k] = Brightest) =>
                  out.vals[k] = f64_from(IF call.inverted THEN call.new_min
                                         ELSE call.new_max)

====
